---- MODULE Spec2Model ----
(***************************************************************************)
(* A model of the MD-to-Notion server: the lowdb document kept by          *)
(* StorageService (config, pages, history, settings), the secret cipher,  *)
(* and NotionService.createPage with its batched block appends.           *)
(***************************************************************************)
EXTENDS Integers, Sequences, FiniteSets, TLC

(* ------------------------------ bounds -------------------------------- *)

\* How many ids nanoid() hands out to pages in one run.
MaxIds == 2

\* How many addHistory calls one run makes.
MaxAppends == 102

\* The longest block sequence handed to createPage.
MaxBlocks == 250

\* The longest string handed to encrypt, in UTF-16 code units.
MaxKeyLen == 2

\* The most pieces an input of extractPageId is put together from.
MaxPieces == 3

\* How many writes of db.json can fail in one run.
MaxFailures == 1

\* How many upload requests a run handles.
MaxRequests == 2

\* The longest damaged token db.json holds as config.apiKey.
MaxTokenLen == 3

\* How many uploads a run makes whose searches are checked.
MaxUploads == 4

\* The most pieces a key sent to POST /api/config/api-key is put together
\* from.
MaxKeyPieces == 2

(* ------------------------- program constants -------------------------- *)

\* addHistory: "Keep only last 100 records".
HistoryCap == 100

\* defaultData.settings.maxFileSize (10MB).
DefaultMaxFileSize == 10485760

\* PUT /api/settings: the schema's minimum of maxFileSize.
MinMaxFileSize == 1048576

\* MAX_BLOCKS_PER_REQUEST: maximum blocks per API call.
MAX_BLOCKS_PER_REQUEST == 100

\* IV_LENGTH, and the AES block size in bytes.
IV_LENGTH == 16

\* The status PUT and DELETE /api/config/pages/:id answer an unknown id with.
NotFoundStatus == 404

\* The length of a page id in hexadecimal characters.
HexLen == 32

(* ------------------------------ values -------------------------------- *)

\* JavaScript's null, for the string-valued fields of the document.
Null == "null"

\* nanoid(): the n-th id handed out; no two calls return the same string.
nanoid(n) == "id" \o ToString(n)

\* An id string a client makes up itself (never one nanoid() returns).
ForeignId == "zz"

\* nanoid() in addHistory: the id of the n-th record appended.
RecordId(n) == "h" \o ToString(n)

Names == {"a", "b"}
PageIds == {"p"}

\* Titles, as sequences of characters.
Titles == {<<"A", "b">>, <<"c">>}

VARIABLES
  pages,      \* db.data.pages: a sequence of page records
  config,     \* db.data.config: [apiKey, defaultPageId]
  nextId,     \* how many ids nanoid() has handed out, plus one
  ret,        \* what the last store call returned
  history,    \* db.data.history: a sequence of records, newest first
  settings,   \* db.data.settings
  nAdded,     \* how many addHistory calls have been made
  workload,   \* the records the uploads of this run hand to addHistory, in
              \* the order of the calls
  pub,        \* the createPage call in progress: its position (pc), its
              \* arguments, the remote calls it has issued, what it returned
  lastKey,    \* what the last setApiKey call was handed (null before any)
  req,        \* the upload request being handled: its position (pc), what
              \* the handler has kept of it, the status it was answered with
  initialized, \* storage.initialized: init() has loaded the document
  disk,       \* db.json: whether the file exists, and the document in it
  failures,   \* how many writes of the adapter can still fail
  lows,       \* the Low instances init() has made, storage.db the last one:
              \* for each, whether its data is still the defaultData object,
              \* and the document it parsed otherwise
  defaults,   \* the contents of the defaultData object
  tasks,      \* the store calls in progress at once: for each its position
              \* (pc), its argument, the Low its read runs on, what it returned
  writes      \* the writes handed to the adapter and not yet on disk, in the
              \* order of the calls

vars == <<pages, config, nextId, ret, history, settings, nAdded, workload, pub,
          lastKey, req, initialized, disk, failures, lows, defaults, tasks,
          writes>>
callVars == <<lows, defaults, tasks, writes>>
ioVars == <<failures, callVars>>
pageVars == <<pages, config, nextId>>
histVars == <<history, nAdded>>

(* ------------------------- JavaScript helpers ------------------------- *)

\* obj.key, or `dflt` when the key is absent (undefined || dflt).
Field(obj, key, dflt) == IF key \in DOMAIN obj THEN obj[key] ELSE dflt

\* Object.assign(target, source): every key of source overwrites target's.
ObjectAssign(target, source) ==
  [k \in (DOMAIN target) \cup (DOMAIN source) |->
     IF k \in DOMAIN source THEN source[k] ELSE target[k]]

\* A slip findIndex's caller could make: -1 is taken for the last position.
FindIndex_Last(ps, id) ==
  IF \E i \in 1..Len(ps) : ps[i].id = id
  THEN CHOOSE i \in 1..Len(ps) :
         ps[i].id = id /\ \A j \in 1..(i - 1) : ps[j].id # id
  ELSE Len(ps)

\* pages.findIndex(p => p.id === id): the first match, 0 for -1.
FindIndex(ps, id) ==
  IF \E i \in 1..Len(ps) : ps[i].id = id
  THEN CHOOSE i \in 1..Len(ps) :
         ps[i].id = id /\ \A j \in 1..(i - 1) : ps[j].id # id
  ELSE 0

\* pages.splice(index, 1)
Splice(ps, index) ==
  [i \in 1..(Len(ps) - 1) |-> IF i < index THEN ps[i] ELSE ps[i + 1]]

(* ----------------------------- the store ------------------------------ *)

\* addPage: the record built from the caller's object.
NewPage(page, id) ==
  [id |-> id,
   name |-> page.name,
   pageId |-> page.pageId,
   isDefault |-> Field(page, "isDefault", FALSE)]

\* addPage: is the new page made the default?
AddMakesDefault(ps, newPage) == newPage.isDefault \/ Len(ps) = 0

\* pages.forEach(p => p.isDefault = false)
DemoteAll(ps) == [i \in 1..Len(ps) |-> [ps[i] EXCEPT !.isDefault = FALSE]]

\* A slip addPage could make: the new default is stored, the old ones stay.
AddPagePages_NoDemote(ps, newPage) ==
  IF AddMakesDefault(ps, newPage)
  THEN Append(ps, [newPage EXCEPT !.isDefault = TRUE])
  ELSE Append(ps, newPage)

\* addPage: db.data.pages after the call.
AddPagePages(ps, newPage) ==
  IF AddMakesDefault(ps, newPage)
  THEN Append(DemoteAll(ps), [newPage EXCEPT !.isDefault = TRUE])
  ELSE Append(ps, newPage)

\* addPage: the object it returns (the one it pushed).
AddPageReturn(ps, newPage) ==
  IF AddMakesDefault(ps, newPage)
  THEN [newPage EXCEPT !.isDefault = TRUE]
  ELSE newPage

\* addPage: db.data.config after the call.
AddPageConfig(cfg, ps, newPage) ==
  IF AddMakesDefault(ps, newPage)
  THEN [cfg EXCEPT !.defaultPageId = newPage.id]
  ELSE cfg

\* updatePage: pages.forEach(p => { if (p.id !== id) p.isDefault = false })
DemoteOthers(ps, id) ==
  [i \in 1..Len(ps) |->
     IF ps[i].id # id THEN [ps[i] EXCEPT !.isDefault = FALSE] ELSE ps[i]]

\* updatePage: db.data.pages after the call on a known id (index > 0).
UpdatePagePages(ps, id, updates) ==
  LET index == FindIndex(ps, id)
      merged == [ps EXCEPT ![index] = ObjectAssign(ps[index], updates)]
  IN IF Field(updates, "isDefault", FALSE)
     THEN DemoteOthers(merged, id)
     ELSE merged

\* updatePage: db.data.config after the call on a known id.
UpdatePageConfig(cfg, id, updates) ==
  IF Field(updates, "isDefault", FALSE)
  THEN [cfg EXCEPT !.defaultPageId = id]
  ELSE cfg

\* deletePage: db.data.pages after the call on a known id.
DeletePagePages(ps, id) ==
  LET index == FindIndex(ps, id)
      wasDefault == ps[index].isDefault
      rest == Splice(ps, index)
  IN IF wasDefault /\ Len(rest) > 0
     THEN [rest EXCEPT ![1].isDefault = TRUE]
     ELSE rest

\* deletePage: db.data.config after the call on a known id.
DeletePageConfig(cfg, ps, id) ==
  LET index == FindIndex(ps, id)
      wasDefault == ps[index].isDefault
      rest == Splice(ps, index)
  IN IF wasDefault /\ Len(rest) > 0
     THEN [cfg EXCEPT !.defaultPageId = rest[1].id]
     ELSE IF Len(rest) = 0
          THEN [cfg EXCEPT !.defaultPageId = Null]
          ELSE cfg

\* addHistory: the record built from the caller's object (record.error || null).
NewRecord(record, id) ==
  [id |-> id,
   title |-> record.title,
   pageConfigId |-> record.pageConfigId,
   notionPageId |-> record.notionPageId,
   notionUrl |-> record.notionUrl,
   status |-> record.status,
   error |-> Field(record, "error", Null)]

\* array.slice(0, end) for end >= 0.
SliceTo(seq, end) == [i \in 1..(IF end < Len(seq) THEN end ELSE Len(seq)) |-> seq[i]]

\* A slip addHistory could make: the cap's comparison is off by one.
AddHistoryHistory_OffByOne(h, newRecord) ==
  LET unshifted == <<newRecord>> \o h
  IN IF Len(unshifted) > HistoryCap + 1
     THEN SliceTo(unshifted, HistoryCap)
     ELSE unshifted

\* addHistory: db.data.history after the call.
AddHistoryHistory(h, newRecord) ==
  LET unshifted == <<newRecord>> \o h
  IN IF Len(unshifted) > HistoryCap
     THEN SliceTo(unshifted, HistoryCap)
     ELSE unshifted

\* String.prototype.toLowerCase, on one character of the model's alphabet.
ToLowerChar(c) ==
  CASE c = "A" -> "a"
    [] c = "B" -> "b"
    [] c = "C" -> "c"
    [] OTHER -> c

\* String.prototype.toLowerCase
ToLowerCase(str) == [i \in 1..Len(str) |-> ToLowerChar(str[i])]

\* String.prototype.includes
Includes(str, sub) ==
  \E k \in 0..(Len(str) - Len(sub)) : \A j \in 1..Len(sub) : str[k + j] = sub[j]

\* getHistory: history.filter(h => h.title.toLowerCase().includes(searchLower))
FilterHistory(h, search) ==
  LET searchLower == ToLowerCase(search)
      keep(r) == Includes(ToLowerCase(r.title), searchLower)
  IN SelectSeq(h, keep)

\* A slip getHistory could make: the limit is taken before the filter.
GetHistoryResult_LimitFirst(h, limit, search) ==
  IF search # <<>>
  THEN FilterHistory(SliceTo(h, limit), search)
  ELSE SliceTo(h, limit)

\* getHistory(limit, search): what it returns (`if (search)`: '' is falsy).
GetHistoryResult(h, limit, search) ==
  LET filtered == IF search # <<>> THEN FilterHistory(h, search) ELSE h
  IN SliceTo(filtered, limit)

\* A slip the handler could make: the update takes the place of the settings.
MergeSettings_Replace(st, updates) == updates

\* PUT /api/settings: Object.assign(storage.db.data.settings, updates).
MergeSettings(st, updates) == ObjectAssign(st, updates)

\* getDefaultPage: pages.find(p => p.isDefault) || null, as an index (0: null).
GetDefaultPage(ps) ==
  IF \E i \in 1..Len(ps) : ps[i].isDefault
  THEN CHOOSE i \in 1..Len(ps) :
         ps[i].isDefault /\ \A j \in 1..(i - 1) : ~ps[j].isDefault
  ELSE 0

(* ----------------------------- the cipher ----------------------------- *)
(* Strings are sequences of UTF-16 code units, as JavaScript's are; bytes  *)
(* are 0..255.  AES's block permutation is kept abstract: a keyed          *)
(* bijection on blocks, chained as CBC chains it.                          *)

\* null where a string may stand: no string has this code unit.
NullStr == <<-1>>

\* The code units of "=" and ":".
PadChar == 61
Colon == 58

\* The code units the model's strings are made of: "A", e-acute, and the
\* two halves of U+1F600.
Units == {65, 233, 55357, 56832}

IsHighSurrogate(c) == c >= 55296 /\ c <= 56319
IsLowSurrogate(c) == c >= 56320 /\ c <= 57343

\* Buffer.from(text, 'utf8'): an unpaired surrogate becomes U+FFFD.
RECURSIVE Utf8Encode(_)
Utf8Encode(u) ==
  IF u = <<>> THEN <<>>
  ELSE LET c == u[1]
       IN IF c < 128
          THEN <<c>> \o Utf8Encode(Tail(u))
          ELSE IF c < 2048
          THEN <<192 + (c \div 64), 128 + (c % 64)>> \o Utf8Encode(Tail(u))
          ELSE IF IsHighSurrogate(c) /\ Len(u) >= 2 /\ IsLowSurrogate(u[2])
          THEN LET cp == 65536 + (c - 55296) * 1024 + (u[2] - 56320)
               IN <<240 + (cp \div 262144), 128 + ((cp \div 4096) % 64),
                    128 + ((cp \div 64) % 64), 128 + (cp % 64)>>
                  \o Utf8Encode(Tail(Tail(u)))
          ELSE IF IsHighSurrogate(c) \/ IsLowSurrogate(c)
          THEN <<239, 191, 189>> \o Utf8Encode(Tail(u))
          ELSE <<224 + (c \div 4096), 128 + ((c \div 64) % 64), 128 + (c % 64)>>
                 \o Utf8Encode(Tail(u))

\* buffer.toString('utf8') of well-formed UTF-8.
RECURSIVE Utf8Decode(_)
Utf8Decode(b) ==
  IF b = <<>> THEN <<>>
  ELSE IF b[1] < 128
  THEN <<b[1]>> \o Utf8Decode(Tail(b))
  ELSE IF b[1] < 224
  THEN <<(b[1] - 192) * 64 + (b[2] - 128)>> \o Utf8Decode(SubSeq(b, 3, Len(b)))
  ELSE IF b[1] < 240
  THEN <<(b[1] - 224) * 4096 + (b[2] - 128) * 64 + (b[3] - 128)>>
         \o Utf8Decode(SubSeq(b, 4, Len(b)))
  ELSE LET cp == (b[1] - 240) * 262144 + (b[2] - 128) * 4096
                   + (b[3] - 128) * 64 + (b[4] - 128) - 65536
       IN <<55296 + (cp \div 1024), 56320 + (cp % 1024)>>
            \o Utf8Decode(SubSeq(b, 5, Len(b)))

\* The base64 alphabet.
B64Chars ==
  [i \in 1..64 |-> IF i <= 26 THEN 64 + i
                   ELSE IF i <= 52 THEN 70 + i
                   ELSE IF i <= 62 THEN i - 5
                   ELSE IF i = 63 THEN 43 ELSE 47]

\* buffer.toString('base64')
RECURSIVE Base64Encode(_)
Base64Encode(b) ==
  IF b = <<>> THEN <<>>
  ELSE IF Len(b) = 1
  THEN <<B64Chars[(b[1] \div 4) + 1], B64Chars[((b[1] % 4) * 16) + 1], PadChar, PadChar>>
  ELSE IF Len(b) = 2
  THEN <<B64Chars[(b[1] \div 4) + 1],
         B64Chars[((b[1] % 4) * 16 + (b[2] \div 16)) + 1],
         B64Chars[((b[2] % 16) * 4) + 1], PadChar>>
  ELSE <<B64Chars[(b[1] \div 4) + 1],
         B64Chars[((b[1] % 4) * 16 + (b[2] \div 16)) + 1],
         B64Chars[((b[2] % 16) * 4 + (b[3] \div 64)) + 1],
         B64Chars[(b[3] % 64) + 1]>>
       \o Base64Encode(SubSeq(b, 4, Len(b)))

\* The value of a base64 character.
B64Value(ch) == (CHOOSE i \in 1..64 : B64Chars[i] = ch) - 1

\* Buffer.from(text, 'base64'): decoding ends at the first "=".
RECURSIVE Base64Decode(_)
Base64Decode(t) ==
  IF Len(t) < 2 \/ t[1] = PadChar \/ t[2] = PadChar THEN <<>>
  ELSE LET v1 == B64Value(t[1])
           v2 == B64Value(t[2])
           b1 == v1 * 4 + (v2 \div 16)
       IN IF Len(t) < 3 \/ t[3] = PadChar THEN <<b1>>
          ELSE LET v3 == B64Value(t[3])
                   b2 == (v2 % 16) * 16 + (v3 \div 4)
               IN IF Len(t) < 4 \/ t[4] = PadChar THEN <<b1, b2>>
                  ELSE <<b1, b2, (v3 % 4) * 64 + B64Value(t[4])>>
                         \o Base64Decode(SubSeq(t, 5, Len(t)))

\* getSecretKey: sha256 of the passphrase, a fixed key while it is unchanged.
SecretKey == [j \in 1..IV_LENGTH |-> (37 * j + 11) % 256]

\* a XOR b on bytes.
RECURSIVE XorBits(_, _, _)
XorBits(a, b, n) ==
  IF n = 0 THEN 0
  ELSE ((a + b) % 2) + 2 * XorBits(a \div 2, b \div 2, n - 1)

XorBlock(x, y) == [j \in 1..IV_LENGTH |-> XorBits(x[j], y[j], 8)]

\* AES on one block under a key, and its inverse (abstract).
BlockEncrypt(key, block) == [j \in 1..IV_LENGTH |-> (block[j] + key[j]) % 256]
BlockDecrypt(key, block) == [j \in 1..IV_LENGTH |-> (block[j] + 256 - key[j]) % 256]

\* PKCS#7 padding, which cipher.final() adds and decipher.final() removes.
Pkcs7Pad(b) ==
  LET p == IV_LENGTH - (Len(b) % IV_LENGTH)
  IN b \o [j \in 1..p |-> p]

\* A slip decryption could make: the padding is left on.
Pkcs7Unpad_Keep(b) == b

Pkcs7Unpad(b) == SubSeq(b, 1, Len(b) - b[Len(b)])

\* CBC: each block is XORed with the previous ciphertext block (the IV first).
RECURSIVE CbcEncrypt(_, _, _)
CbcEncrypt(key, prev, b) ==
  IF b = <<>> THEN <<>>
  ELSE LET c == BlockEncrypt(key, XorBlock(SubSeq(b, 1, IV_LENGTH), prev))
       IN c \o CbcEncrypt(key, c, SubSeq(b, IV_LENGTH + 1, Len(b)))

RECURSIVE CbcDecrypt(_, _, _)
CbcDecrypt(key, prev, b) ==
  IF b = <<>> THEN <<>>
  ELSE LET c == SubSeq(b, 1, IV_LENGTH)
       IN XorBlock(BlockDecrypt(key, c), prev)
            \o CbcDecrypt(key, c, SubSeq(b, IV_LENGTH + 1, Len(b)))

\* encrypt(text), with the IV crypto.randomBytes drew: `iv:encrypted`.
Encrypt(text, iv) ==
  IF text = NullStr \/ text = <<>> THEN NullStr
  ELSE Base64Encode(iv) \o <<Colon>>
         \o Base64Encode(CbcEncrypt(SecretKey, iv, Pkcs7Pad(Utf8Encode(text))))

\* encryptedText.split(':'): the parts between the colons.
RECURSIVE Split(_)
Split(t) ==
  IF \E i \in 1..Len(t) : t[i] = Colon
  THEN LET i == CHOOSE i \in 1..Len(t) :
                  t[i] = Colon /\ \A j \in 1..(i - 1) : t[j] # Colon
       IN <<SubSeq(t, 1, i - 1)>> \o Split(SubSeq(t, i + 1, Len(t)))
  ELSE <<t>>

\* decrypt(encryptedText): what it returns, or that it threw.
Decrypt(encryptedText) ==
  IF encryptedText = NullStr \/ encryptedText = <<>>
  THEN [threw |-> FALSE, value |-> NullStr, message |-> ""]
  ELSE LET parts == Split(encryptedText)
       IN IF Len(parts) < 2 \/ parts[1] = <<>> \/ parts[2] = <<>>
          THEN [threw |-> TRUE, value |-> NullStr,
                message |-> "Invalid encrypted text format"]
          ELSE LET iv == Base64Decode(parts[1])
                   data == Base64Decode(parts[2])
               IN IF Len(iv) # IV_LENGTH \/ Len(data) = 0
                     \/ Len(data) % IV_LENGTH # 0
                  THEN [threw |-> TRUE, value |-> NullStr,
                        message |-> "bad decrypt"]
                  ELSE [threw |-> FALSE, message |-> "",
                        value |-> Utf8Decode(Pkcs7Unpad(
                                    CbcDecrypt(SecretKey, iv, data)))]

\* The IVs crypto.randomBytes(IV_LENGTH) draws in the model.
IVs == {[j \in 1..IV_LENGTH |-> 0], [j \in 1..IV_LENGTH |-> (j * 53) % 256]}

\* Every string of at most n code units.
Strings(n) == UNION {[1..k -> Units] : k \in 0..n}

\* What setApiKey and encrypt are handed: a string, or null.
Plaintexts == Strings(MaxKeyLen) \cup {NullStr}

(* ---------------------------- the validator --------------------------- *)
(* Here a string is a sequence of one-character strings, and a value that  *)
(* may not be a string carries its typeof.                                 *)

HexDigits ==
  {"0", "1", "2", "3", "4", "5", "6", "7", "8", "9",
   "a", "b", "c", "d", "e", "f", "A", "B", "C", "D", "E", "F"}

\* [a-f0-9] under the i flag.
IsHex(c) == c \in HexDigits

UpperLetters ==
  <<"A", "B", "C", "D", "E", "F", "G", "H", "I", "J", "K", "L", "M",
    "N", "O", "P", "Q", "R", "S", "T", "U", "V", "W", "X", "Y", "Z">>
LowerLetters ==
  <<"a", "b", "c", "d", "e", "f", "g", "h", "i", "j", "k", "l", "m",
    "n", "o", "p", "q", "r", "s", "t", "u", "v", "w", "x", "y", "z">>

\* The character as the i flag compares it.
FoldCase(c) ==
  IF \E k \in 1..26 : UpperLetters[k] = c
  THEN LowerLetters[CHOOSE k \in 1..26 : UpperLetters[k] = c]
  ELSE c

WhiteSpace == {" ", "\t", "\n"}

\* String.prototype.trim
Trim(str) ==
  LET inked == {i \in 1..Len(str) : str[i] \notin WhiteSpace}
  IN IF inked = {} THEN <<>>
     ELSE LET first == CHOOSE i \in inked : \A j \in inked : i <= j
              last == CHOOSE i \in inked : \A j \in inked : i >= j
          IN SubSeq(str, first, last)

\* [a-f0-9]{n} matches at position i.
HexRunAt(str, i, n) ==
  /\ i + n - 1 <= Len(str)
  /\ \A k \in i..(i + n - 1) : IsHex(str[k])

\* /^[a-f0-9]{32}$/i
IsHexId(str) == Len(str) = HexLen /\ HexRunAt(str, 1, HexLen)

\* Where the dashes of 8-4-4-4-12 stand.
UuidDashes == {9, 14, 19, 24}

\* /^[a-f0-9]{8}-[a-f0-9]{4}-[a-f0-9]{4}-[a-f0-9]{4}-[a-f0-9]{12}$/i
IsDashedUuid(str) ==
  /\ Len(str) = HexLen + 4
  /\ \A i \in 1..Len(str) :
       IF i \in UuidDashes THEN str[i] = "-" ELSE IsHex(str[i])

\* A slip the dash removal could make: only the first dash goes (no g flag).
RemoveDashes_First(str) ==
  LET d == CHOOSE i \in 1..Len(str) : str[i] = "-" /\ \A j \in 1..(i - 1) : str[j] # "-"
  IN SubSeq(str, 1, d - 1) \o SubSeq(str, d + 1, Len(str))

\* trimmed.replace(/-/g, '')
RemoveDashes(str) == SelectSeq(str, LAMBDA c : c # "-")

\* The literal notion\.so\/ of the URL pattern.
NotionSo == <<"n", "o", "t", "i", "o", "n", ".", "s", "o", "/">>

\* A literal matches at position i, under the i flag.
LiteralAt(str, i, lit) ==
  /\ i + Len(lit) - 1 <= Len(str)
  /\ \A k \in 1..Len(lit) : FoldCase(str[i + k - 1]) = lit[k]

\* The first position from i on that holds the character, 0 for none.
IndexFrom(str, i, c) ==
  IF \E j \in i..Len(str) : str[j] = c
  THEN CHOOSE j \in i..Len(str) : str[j] = c /\ \A k \in i..(j - 1) : str[k] # c
  ELSE 0

\* Where (?:[^/]+\/) ends when it matches at position q, 0 when it does not.
WorkspaceEnd(str, q) ==
  LET j == IndexFrom(str, q, "/")
  IN IF j > q THEN j + 1 ELSE 0

\* A slip the URL pattern could have: a lazy star, the fewest repetitions
\* first.
RECURSIVE SlugEnds_Lazy(_, _)
SlugEnds_Lazy(str, r) ==
  LET d == IndexFrom(str, r, "-")
  IN IF d > r THEN <<r>> \o SlugEnds_Lazy(str, d + 1) ELSE <<r>>

\* Where (?:[^-]+-)* can end when it starts at position r, in the order the
\* greedy star tries: the most repetitions first.
RECURSIVE SlugEnds(_, _)
SlugEnds(str, r) ==
  LET d == IndexFrom(str, r, "-")
  IN IF d > r THEN SlugEnds(str, d + 1) \o <<r>> ELSE <<r>>

\* The first position of a sequence of positions at which the id matches.
FirstHexAt(str, ends) ==
  LET hits == {k \in 1..Len(ends) : HexRunAt(str, ends[k], HexLen)}
  IN IF hits = {} THEN 0
     ELSE ends[CHOOSE k \in hits : \A h \in hits : k <= h]

\* Where the id group of the URL pattern matches when the pattern is tried
\* at position p (0 when it does not match there): with the workspace
\* segment first, then without.
UrlCaptureAt(str, p) ==
  IF ~LiteralAt(str, p, NotionSo) THEN 0
  ELSE LET q == p + Len(NotionSo)
           w == WorkspaceEnd(str, q)
           withWorkspace == IF w = 0 THEN 0 ELSE FirstHexAt(str, SlugEnds(str, w))
       IN IF withWorkspace # 0 THEN withWorkspace
          ELSE FirstHexAt(str, SlugEnds(str, q))

\* trimmed.match(/notion\.so\/(?:[^/]+\/)?(?:[^-]+-)*([a-f0-9]{32})/i): the
\* position of group 1 in the leftmost match, 0 for no match.
UrlMatch(str) ==
  LET starts == {p \in 1..Len(str) : UrlCaptureAt(str, p) # 0}
  IN IF starts = {} THEN 0
     ELSE UrlCaptureAt(str, CHOOSE p \in starts : \A o \in starts : p <= o)

\* A slip the last pattern could have: the run need not be followed by the
\* end or by "?".
LastHexMatch_Unanchored(str) ==
  LET hits == {i \in 1..Len(str) : HexRunAt(str, i, HexLen)}
  IN IF hits = {} THEN 0 ELSE CHOOSE i \in hits : \A h \in hits : i <= h

\* trimmed.match(/([a-f0-9]{32})(?:\?|$)/i): the position of group 1 in the
\* leftmost match, 0 for no match.
LastHexMatch(str) ==
  LET hits == {i \in 1..Len(str) :
                 /\ HexRunAt(str, i, HexLen)
                 /\ (i + HexLen > Len(str) \/ str[i + HexLen] = "?")}
  IN IF hits = {} THEN 0 ELSE CHOOSE i \in hits : \A h \in hits : i <= h

\* extractPageId(input): the id, or null.
ExtractPageId(input) ==
  IF input.type # "string" \/ input.value = <<>> THEN Null
  ELSE LET trimmed == Trim(input.value)
       IN IF IsHexId(trimmed) THEN trimmed
          ELSE IF IsDashedUuid(trimmed) THEN RemoveDashes(trimmed)
          ELSE IF UrlMatch(trimmed) # 0
          THEN SubSeq(trimmed, UrlMatch(trimmed), UrlMatch(trimmed) + HexLen - 1)
          ELSE IF LastHexMatch(trimmed) # 0
          THEN SubSeq(trimmed, LastHexMatch(trimmed),
                      LastHexMatch(trimmed) + HexLen - 1)
          ELSE Null

\* The two prefixes of an integration token.
SecretPrefix == <<"s", "e", "c", "r", "e", "t", "_">>
NtnPrefix == <<"n", "t", "n", "_">>

Digits == {"0", "1", "2", "3", "4", "5", "6", "7", "8", "9"}

\* [a-zA-Z0-9]
IsAlnum(c) ==
  \/ c \in Digits
  \/ \E k \in 1..26 : UpperLetters[k] = c \/ LowerLetters[k] = c

\* /^(secret_|ntn_)[a-zA-Z0-9]+$/ matches str.
KeyPattern(str) ==
  \E prefix \in {SecretPrefix, NtnPrefix} :
    /\ Len(str) > Len(prefix)
    /\ SubSeq(str, 1, Len(prefix)) = prefix
    /\ \A i \in (Len(prefix) + 1)..Len(str) : IsAlnum(str[i])

\* isValidApiKeyFormat(apiKey) for a string: the pattern is tested on
\* apiKey.trim(); the empty string is falsy.
IsValidApiKeyFormat(apiKey) == apiKey # <<>> /\ KeyPattern(Trim(apiKey))

\* charCodeAt: the code unit of a character of the keys' alphabet.
CharCode(c) ==
  IF \E k \in 1..26 : LowerLetters[k] = c
  THEN 96 + (CHOOSE k \in 1..26 : LowerLetters[k] = c)
  ELSE IF \E k \in 1..26 : UpperLetters[k] = c
  THEN 64 + (CHOOSE k \in 1..26 : UpperLetters[k] = c)
  ELSE CASE c = "0" -> 48 [] c = "1" -> 49 [] c = "9" -> 57
         [] c = " " -> 32 [] c = "\t" -> 9 [] c = "\n" -> 10
         [] c = "-" -> 45 [] c = "_" -> 95

\* The string as the cipher sees it: its UTF-16 code units.
CodeUnits(str) == [i \in 1..Len(str) |-> CharCode(str[i])]

(* ---------------------------- the publisher --------------------------- *)

\* array.slice(start, end) for 0 <= start <= end.
Slice(seq, start, end) ==
  LET stop == IF end < Len(seq) THEN end ELSE Len(seq)
  IN [k \in 1..(IF stop > start THEN stop - start ELSE 0) |-> seq[start + k]]

\* createPage: blocks.slice(0, MAX_BLOCKS_PER_REQUEST)
InitialBlocks(blocks) == Slice(blocks, 0, MAX_BLOCKS_PER_REQUEST)

\* A slip createPage could make: the remainder starts one block late.
RemainingBlocks_FromCap(blocks) ==
  Slice(blocks, MAX_BLOCKS_PER_REQUEST + 1, Len(blocks))

\* createPage: blocks.slice(MAX_BLOCKS_PER_REQUEST)
RemainingBlocks(blocks) == Slice(blocks, MAX_BLOCKS_PER_REQUEST, Len(blocks))

\* A slip appendBlocks could make: the batch's end is past the cap by one.
AppendBatch_OneMore(blocks, i) == Slice(blocks, i, i + MAX_BLOCKS_PER_REQUEST + 1)

\* appendBlocks: blocks.slice(i, i + MAX_BLOCKS_PER_REQUEST)
AppendBatch(blocks, i) == Slice(blocks, i, i + MAX_BLOCKS_PER_REQUEST)

\* The message formatError has for a known error code ("" for none).
ErrorMessages(code) ==
  CASE code = "unauthorized" ->
         "Invalid API key. Please check your Notion integration token."
    [] code = "object_not_found" ->
         "Page not found. Please check if the page exists and is shared with your integration."
    [] code = "rate_limited" ->
         "Too many requests. Please wait a moment and try again."
    [] code = "validation_error" ->
         "Invalid request format. Please check your input."
    [] code = "internal_server_error" ->
         "Notion server error. Please try again later."
    [] code = "service_unavailable" ->
         "Notion service is temporarily unavailable. Please try again later."
    [] OTHER -> ""

\* A slip formatError could make: the error's own message, even if empty.
FormatError_Verbatim(error) ==
  IF ErrorMessages(error.code) # "" THEN ErrorMessages(error.code) ELSE error.message

\* formatError: errorMessages[code] || (error.message || 'Unknown error occurred')
FormatError(error) ==
  LET message == IF error.message # "" THEN error.message
                 ELSE "Unknown error occurred"
  IN IF ErrorMessages(error.code) # "" THEN ErrorMessages(error.code) ELSE message

\* initClient: the error thrown when getApiKey() is null.
NoKeyError == [code |-> "", message |-> "Notion API key is not configured"]

\* The errors a call to the Notion API can end in.
RemoteErrors ==
  {[code |-> "rate_limited", message |-> "slow down"],
   [code |-> "teapot", message |-> "I am a teapot"],
   [code |-> "teapot", message |-> ""]}

\* What client.pages.retrieve can end in.
AccessOutcomes ==
  {[ok |-> TRUE]} \cup {[ok |-> FALSE, error |-> e] : e \in RemoteErrors}

\* The page the Notion API answers pages.create with, the k-th it created.
RemotePage(k) == [id |-> "n" \o ToString(k), url |-> "u" \o ToString(k)]

\* createPage's catch: { success: false, error: formatError(error) }
Failure(error) == [success |-> FALSE, error |-> FormatError(error)]

\* createPage's return after the last call.
Success(response, title) ==
  [success |-> TRUE,
   page |-> [id |-> response.id, url |-> response.url, title |-> title]]

\* No createPage call in progress.
NoPublish == [pc |-> "idle"]

\* createPage(parentPageId, title, blocks) entered.
BeginPublish(parentPageId, title, blocks, created) ==
  [pc |-> "init", parent |-> parentPageId, title |-> title, blocks |-> blocks,
   calls |-> <<>>, inflight |-> 0, created |-> created,
   response |-> [id |-> Null, url |-> Null],
   remaining |-> <<>>, i |-> 0, result |-> [pending |-> TRUE]]

\* No upload request has arrived.
NoRequest ==
  [pc |-> "idle", n |-> 0, route |-> Null, title |-> <<>>, pageConfigId |-> Null,
   seen |-> FALSE, empty |-> FALSE, oversize |-> FALSE, asked |-> Null,
   conversions |-> 0, converted |-> FALSE,
   reached |-> FALSE, records |-> 0, status |-> 0]

(* ------------------------------ inputs -------------------------------- *)

\* The objects POST /api/config/pages passes to addPage: isDefault is the
\* body's boolean, or absent.
AddInputs ==
  [name : Names, pageId : PageIds] \cup
  [name : Names, pageId : PageIds, isDefault : BOOLEAN]

\* The page ids a client has seen: those nanoid() handed out so far.
KnownIds == {nanoid(n) : n \in 1..(nextId - 1)}

\* The :id a client puts in a request: one it has seen, or one of its own.
CallIds == KnownIds \cup {ForeignId}

\* The bodies PUT /api/config/pages/:id passes to updatePage unchanged: name
\* and isDefault as the schema types them, each optional, and any further
\* property (the schema does not set additionalProperties: false), of which
\* the model keeps `id`.
UpdateInputs ==
  LET withName(S) == S \cup UNION {{ObjectAssign(u, [name |-> n]) : n \in Names} : u \in S}
      withDefault(S) == S \cup UNION {{ObjectAssign(u, [isDefault |-> b]) : b \in BOOLEAN} : u \in S}
      withId(S) == S \cup UNION {{ObjectAssign(u, [id |-> i]) : i \in KnownIds} : u \in S}
  IN withId(withDefault(withName({<<>>})))

\* Two page ids, and the dashed form of an id, as the documentation's
\* examples have them.
HexA ==
  <<"a", "1", "b", "2", "c", "3", "d", "4", "e", "5", "f", "6", "a", "1",
    "b", "2", "c", "3", "d", "4", "e", "5", "f", "6", "a", "1", "b", "2",
    "c", "3", "d", "4">>
HexB ==
  <<"0", "F", "9", "E", "8", "D", "7", "C", "6", "B", "5", "A", "0", "F",
    "9", "E", "8", "D", "7", "C", "6", "B", "5", "A", "0", "F", "9", "E",
    "8", "D", "7", "C">>
DashedA ==
  <<"A", "1", "B", "2", "C", "3", "D", "4", "-", "E", "5", "F", "6", "-",
    "A", "1", "B", "2", "-", "C", "3", "D", "4", "-", "E", "5", "F", "6",
    "A", "1", "B", "2", "C", "3", "D", "4">>

\* The pieces the inputs of extractPageId are put together from.
Pieces ==
  {NotionSo, <<"N", "O", "T", "I", "O", "N", ".", "S", "O", "/">>,
   <<"w", "s", "/">>, <<"M", "y", "-">>, HexA, HexB, DashedA,
   <<"-">>, <<"/">>, <<"?">>, <<" ">>}

\* Every string of at most n pieces.
RECURSIVE Pieced(_)
Pieced(n) ==
  IF n = 0 THEN {<<>>}
  ELSE Pieced(n - 1) \cup {head \o piece : head \in Pieced(n - 1), piece \in Pieces}

\* The documentation's examples: a link with workspace and title, and text
\* that is no link.
ExampleLink ==
  <<"h", "t", "t", "p", "s", ":", "/", "/", "w", "w", "w", ".">> \o NotionSo
    \o <<"m", "y", "w", "o", "r", "k", "s", "p", "a", "c", "e", "/">>
    \o <<"M", "y", "-", "P", "a", "g", "e", "-">> \o HexA
ExampleText ==
  <<"n", "o", "t", " ", "a", " ", "n", "o", "t", "i", "o", "n", " ",
    "l", "i", "n", "k">>

\* A link whose path holds another link.
NestedLink == NotionSo \o HexA \o <<"/">> \o NotionSo \o HexB

\* A link to a page whose title is itself an id.
IdTitleLink == NotionSo \o <<"w", "s", "/">> \o HexA \o <<"-">> \o HexB

\* The pieces the keys sent to POST /api/config/api-key are put together
\* from.
KeyPieces == {SecretPrefix, NtnPrefix, <<"a">>, <<" ">>, <<"-">>}

\* Every non-empty string of at most n of the pieces.
RECURSIVE KeyPieced(_)
KeyPieced(n) ==
  IF n = 1 THEN KeyPieces
  ELSE KeyPieced(n - 1)
         \cup {head \o piece : head \in KeyPieced(n - 1), piece \in KeyPieces}

\* A token as Notion hands it out, and the same token as pasted with white
\* space before it, or after it.
GoodKey == SecretPrefix \o <<"a", "1">>
LedKey == <<" ">> \o GoodKey
TrailedKey == GoodKey \o <<"\n">>

\* The body's apiKey (the schema: a string of at least one character).
KeyInputs == KeyPieced(MaxKeyPieces) \cup {GoodKey, LedKey, TrailedKey}

\* The body's pageUrl in the requests made next to a publish.
UrlInputs ==
  {[type |-> "string", value |-> v] : v \in {HexA, DashedA, ExampleLink, ExampleText}}

\* What extractPageId is called with: strings, null, a number.
ExtractInputs ==
  {[type |-> "string", value |-> v] :
     v \in Pieced(MaxPieces)
             \cup {ExampleLink, ExampleText, NestedLink, IdTitleLink}}
  \cup {[type |-> "object", value |-> <<>>], [type |-> "number", value |-> <<>>]}

\* What the upload routes hand to addHistory after a publish.
HistoryInputs ==
  {[title |-> t, pageConfigId |-> nanoid(1), notionPageId |-> "n",
    notionUrl |-> "u", status |-> "success", error |-> Null] : t \in Titles}
  \cup
  {[title |-> t, pageConfigId |-> nanoid(1), notionPageId |-> Null,
    notionUrl |-> Null, status |-> "failed", error |-> "e"] : t \in Titles}

\* The workloads: every list of 1..MaxUploads such records.
Workloads == UNION {[1..n -> HistoryInputs] : n \in 1..MaxUploads}

\* A long run: MaxAppends uploads that alternately succeed and fail.
LongWorkload ==
  [k \in 1..MaxAppends |->
     IF k % 2 = 1
     THEN [title |-> <<"A", "b">>, pageConfigId |-> nanoid(1),
           notionPageId |-> "n", notionUrl |-> "u", status |-> "success",
           error |-> Null]
     ELSE [title |-> <<"c">>, pageConfigId |-> nanoid(1),
           notionPageId |-> Null, notionUrl |-> Null, status |-> "failed",
           error |-> "e"]]

\* The record the k-th addHistory call of the run is handed.
Upload(k) == workload[k]

\* GET /api/history: limit is an integer in 1..100 (default 50).
QueryLimits == {1, 2, 50, 100}

\* GET /api/history: the search strings tried.
Searches == {<<>>, <<"a">>, <<"B">>, <<"a", "B">>, <<"b", "a">>, <<"C">>, <<"x">>}

\* Every body of PUT /api/settings over the schema's three keys, each
\* optional and typed by the schema, and one with a key the schema does not
\* name (it does not set additionalProperties: false).
AllSettingsInputs ==
  LET with(S, key, values) ==
        S \cup UNION {{ObjectAssign(u, [k \in {key} |-> v]) : v \in values} : u \in S}
  IN with(with(with({<<>>}, "autoOpenNotion", BOOLEAN),
               "autoClearInput", BOOLEAN),
          "maxFileSize", {MinMaxFileSize})
     \cup {[theme |-> "dark"]}

\* Bodies of PUT /api/settings, each key optional and typed by the schema.
SettingsInputs ==
  {[autoOpenNotion |-> TRUE],
   [autoOpenNotion |-> FALSE, maxFileSize |-> MinMaxFileSize]}

(* ------------------------------ the file ------------------------------ *)

\* db.data, the document the handlers see.
Document ==
  [pages |-> pages, config |-> config, history |-> history, settings |-> settings]

\* defaultData as the module defines it.
DefaultData ==
  [pages |-> <<>>, config |-> [apiKey |-> NullStr, defaultPageId |-> Null],
   history |-> <<>>,
   settings |-> [autoOpenNotion |-> FALSE, autoClearInput |-> TRUE,
                 maxFileSize |-> DefaultMaxFileSize]]

\* No store call is in progress.
NoTasks == <<>>

\* The file holds the document (or is yet to be made, the document being
\* the defaults), and one call runs at a time.
FileWith(exists, canFail) ==
  /\ disk = [exists |-> exists, doc |-> Document]
  /\ failures = canFail
  /\ lows = <<>>
  /\ defaults = DefaultData
  /\ tasks = NoTasks
  /\ writes = <<>>

\* The same, every write succeeding.
Steady(exists) == FileWith(exists, 0)

\* What the write of a mutator can end in.
WriteOutcomes == IF failures > 0 THEN BOOLEAN ELSE {TRUE}

\* What the caller of a mutator gets when db.write() throws.
WriteFailure(op) == [op |-> op, failed |-> TRUE]

\* `await this.db.write(); return value`: the document goes to the file and
\* the value to the caller, or the write throws.
Write(value) ==
  \E ok \in WriteOutcomes :
    /\ disk' = IF ok THEN [exists |-> TRUE, doc |-> Document'] ELSE disk
    /\ failures' = IF ok THEN failures ELSE failures - 1
    /\ ret' = IF ok THEN value ELSE WriteFailure(value.op)

(* ------------------------------ actions ------------------------------- *)

Init ==
  /\ pages = <<>>
  /\ config = [apiKey |-> NullStr, defaultPageId |-> Null]
  /\ nextId = 1
  /\ ret = [op |-> "none"]
  /\ history = <<>>
  /\ settings = [autoOpenNotion |-> FALSE, autoClearInput |-> TRUE,
                 maxFileSize |-> DefaultMaxFileSize]
  /\ nAdded = 0
  /\ workload = <<>>
  /\ pub = NoPublish
  /\ lastKey = NullStr
  /\ req = NoRequest
  /\ initialized = FALSE
  /\ Steady(FALSE)

AddPage ==
  /\ nextId <= MaxIds
  /\ nextId' = nextId + 1
  /\ initialized' = TRUE
  /\ UNCHANGED <<histVars, settings, workload, pub, lastKey, req, callVars>>
  /\ \E page \in AddInputs :
       LET newPage == NewPage(page, nanoid(nextId))
       IN /\ pages' = AddPagePages(pages, newPage)
          /\ config' = AddPageConfig(config, pages, newPage)
          /\ Write([op |-> "addPage", page |-> AddPageReturn(pages, newPage)])

\* PUT /api/config/pages/:id with a body of the set S.
UpdatePageWith(S) ==
  \E id \in CallIds, updates \in S :
    /\ initialized' = TRUE
    /\ UNCHANGED <<nextId, histVars, settings, workload, pub, lastKey, req,
                 callVars>>
    /\ IF FindIndex(pages, id) = 0
       THEN /\ ret' = [op |-> "updatePage", found |-> FALSE, id |-> id,
                        status |-> NotFoundStatus]
            /\ UNCHANGED <<pages, config, disk, failures>>
       ELSE /\ pages' = UpdatePagePages(pages, id, updates)
            /\ config' = UpdatePageConfig(config, id, updates)
            /\ Write([op |-> "updatePage", found |-> TRUE, id |-> id,
                      status |-> 200])

UpdatePage == UpdatePageWith(UpdateInputs)

\* updatePage with a new name or as the new default.
RenamePage == UpdatePageWith({[name |-> "b"], [isDefault |-> TRUE]})

DeletePage ==
  \E id \in CallIds :
    /\ initialized' = TRUE
    /\ UNCHANGED <<nextId, histVars, settings, workload, pub, lastKey, req,
                 callVars>>
    /\ IF FindIndex(pages, id) = 0
       THEN /\ ret' = [op |-> "deletePage", deleted |-> FALSE, id |-> id,
                        status |-> NotFoundStatus]
            /\ UNCHANGED <<pages, config, disk, failures>>
       ELSE /\ pages' = DeletePagePages(pages, id)
            /\ config' = DeletePageConfig(config, pages, id)
            /\ Write([op |-> "deletePage", deleted |-> TRUE, id |-> id,
                      status |-> 200])

Next == AddPage \/ UpdatePage \/ DeletePage

Spec == Init /\ [][Next]_vars

(* ----------------------- history and settings ------------------------- *)

\* The state after construction, given the run's workload.
InitWith(w) ==
  /\ pages = <<>>
  /\ config = [apiKey |-> NullStr, defaultPageId |-> Null]
  /\ nextId = 1
  /\ ret = [op |-> "none"]
  /\ history = <<>>
  /\ settings = [autoOpenNotion |-> FALSE, autoClearInput |-> TRUE,
                 maxFileSize |-> DefaultMaxFileSize]
  /\ nAdded = 0
  /\ workload = w
  /\ pub = NoPublish
  /\ lastKey = NullStr
  /\ req = NoRequest
  /\ initialized = FALSE
  /\ Steady(FALSE)

\* The long run, between page and settings requests.
InitHist == InitWith(LongWorkload)

AddHistory ==
  /\ nAdded < Len(workload)
  /\ nAdded' = nAdded + 1
  /\ initialized' = TRUE
  /\ UNCHANGED <<pageVars, settings, workload, pub, lastKey, req, callVars>>
  /\ LET newRecord == NewRecord(Upload(nAdded + 1), RecordId(nAdded + 1))
     IN /\ history' = AddHistoryHistory(history, newRecord)
        /\ Write([op |-> "addHistory", record |-> newRecord])

\* PUT /api/settings with a body of the set S.
UpdateSettingsWith(S) ==
  /\ initialized' = TRUE
  /\ UNCHANGED <<pageVars, histVars, workload, pub, lastKey, req, callVars>>
  /\ \E updates \in S :
       /\ settings' = MergeSettings(settings, updates)
       /\ Write([op |-> "putSettings", updates |-> updates,
                 settings |-> settings'])

UpdateSettings == UpdateSettingsWith(SettingsInputs)

NextHist == AddHistory \/ UpdateSettings \/ AddPage \/ DeletePage

SpecHist == InitHist /\ [][NextHist]_vars

\* Any short workload, and the searches GET /api/history makes.
InitQuery == \E w \in Workloads : InitWith(w)

GetHistory ==
  /\ \E limit \in QueryLimits, search \in Searches :
       ret' = [op |-> "getHistory", limit |-> limit, search |-> search,
               result |-> GetHistoryResult(history, limit, search)]
  /\ initialized' = TRUE
  /\ UNCHANGED <<pageVars, histVars, settings, workload, pub, lastKey, req>>
  /\ UNCHANGED <<disk, ioVars>>

NextQuery == AddHistory \/ GetHistory

SpecQuery == InitQuery /\ [][NextQuery]_vars

(* ------------------------ createPage, step by step -------------------- *)

\* A slip getApiKey could make: a failed decrypt read as no key.
GetApiKeyResult_Swallow(cfg) ==
  IF cfg.apiKey # NullStr /\ cfg.apiKey # <<>> /\ ~Decrypt(cfg.apiKey).threw
  THEN Decrypt(cfg.apiKey)
  ELSE [threw |-> FALSE, value |-> NullStr, message |-> ""]

\* getApiKey(): encrypted ? decrypt(encrypted) : null
GetApiKeyResult(cfg) ==
  IF cfg.apiKey # NullStr /\ cfg.apiKey # <<>>
  THEN Decrypt(cfg.apiKey)
  ELSE [threw |-> FALSE, value |-> NullStr, message |-> ""]

\* initClient(): does it throw? (getApiKey() threw, or `!apiKey`.)
InitClientThrows(cfg) ==
  LET r == GetApiKeyResult(cfg)
  IN r.threw \/ r.value = NullStr \/ r.value = <<>>

\* initClient(): the error it throws.
InitClientError(cfg) ==
  LET r == GetApiKeyResult(cfg)
  IN IF r.threw THEN [code |-> "", message |-> r.message] ELSE NoKeyError

\* initClient() at the head of createPage: throws without a stored key.
PublishInit ==
  /\ pub.pc = "init"
  /\ pub' = IF InitClientThrows(config)
            THEN [pub EXCEPT !.pc = "done",
                             !.result = Failure(InitClientError(config))]
            ELSE [pub EXCEPT !.pc = "create"]
  /\ initialized' = TRUE
  /\ UNCHANGED <<pageVars, ret, histVars, settings, workload, lastKey, req>>
  /\ UNCHANGED <<disk, ioVars>>

\* A remote call as createPage issues it, yet to complete.
Issued(kind, children) ==
  [kind |-> kind, children |-> children, done |-> FALSE, ok |-> FALSE]

\* The call the Notion API answers next: the earliest one not yet completed.
Answering(calls) ==
  CHOOSE c \in 1..Len(calls) :
    ~calls[c].done /\ \A b \in 1..(c - 1) : calls[b].done

\* A slip appendBlocks could make: the append is not awaited, the loop goes
\* on to the next batch at once.
Awaits_OnlyCreate(kind) == IF kind = "create" THEN "creating" ELSE "append"

\* `await client...`: where createPage stands while a call of the kind is
\* in flight.
Awaits(kind) == IF kind = "create" THEN "creating" ELSE "appending"

\* A slip createPage could make: the first call that throws is issued again.
Caught_Retry(p, c, error) ==
  IF \E b \in 1..Len(p.calls) : b # c /\ p.calls[b].done /\ ~p.calls[b].ok
  THEN [p EXCEPT !.pc = "done", !.calls[c].done = TRUE, !.inflight = @ - 1,
                 !.result = Failure(error)]
  ELSE [p EXCEPT !.pc = IF p.calls[c].kind = "create" THEN "create" ELSE "append",
                 !.calls[c].done = TRUE, !.inflight = @ - 1,
                 !.i = IF p.calls[c].kind = "create" THEN @
                       ELSE @ - MAX_BLOCKS_PER_REQUEST]

\* createPage's catch: call c threw, nothing more is called, createPage
\* returns { success: false, error: formatError(error) }.
Caught(p, c, error) ==
  [p EXCEPT !.pc = "done", !.calls[c].done = TRUE, !.inflight = @ - 1,
            !.result = Failure(error)]

\* client.pages.create is called with the initial blocks.
PublishCreate ==
  /\ pub.pc = "create"
  /\ pub' = [pub EXCEPT
               !.pc = Awaits("create"),
               !.calls = Append(@, Issued("create", InitialBlocks(pub.blocks))),
               !.inflight = @ + 1]
  /\ UNCHANGED <<pageVars, ret, histVars, settings, workload, lastKey, req,
               initialized>>
  /\ UNCHANGED <<disk, ioVars>>

\* client.pages.create completes; then either the return, or appendBlocks
\* (whose initClient() reads the key again).
PublishCreated ==
  /\ pub.pc # "idle"
  /\ pub.inflight > 0
  /\ pub.calls[Answering(pub.calls)].kind = "create"
  /\ LET c == Answering(pub.calls)
         remaining == RemainingBlocks(pub.blocks)
         response == RemotePage(pub.created + 1)
     IN \/ \E error \in RemoteErrors : pub' = Caught(pub, c, error)
        \/ pub' = [pub EXCEPT
                     !.calls[c].done = TRUE,
                     !.calls[c].ok = TRUE,
                     !.inflight = @ - 1,
                     !.created = @ + 1,
                     !.pc = IF Len(remaining) > 0 /\ ~InitClientThrows(config)
                            THEN "append" ELSE "done",
                     !.response = response,
                     !.remaining = remaining,
                     !.i = 0,
                     !.result = IF Len(remaining) > 0 /\ InitClientThrows(config)
                                THEN Failure(InitClientError(config))
                                ELSE Success(response, pub.title)]
  /\ UNCHANGED <<pageVars, ret, histVars, settings, workload, lastKey, req,
               initialized>>
  /\ UNCHANGED <<disk, ioVars>>

\* One turn of appendBlocks' loop: client.blocks.children.append is called
\* with the batch at i.
PublishAppend ==
  /\ pub.pc = "append"
  /\ pub.i < Len(pub.remaining)
  /\ pub' = [pub EXCEPT
               !.pc = Awaits("append"),
               !.calls = Append(@, Issued("append", AppendBatch(pub.remaining, pub.i))),
               !.inflight = @ + 1,
               !.i = @ + MAX_BLOCKS_PER_REQUEST]
  /\ UNCHANGED <<pageVars, ret, histVars, settings, workload, lastKey, req,
               initialized>>
  /\ UNCHANGED <<disk, ioVars>>

\* The append completes: the loop goes on, or ends, or the call threw.
PublishAppended ==
  /\ pub.pc # "idle"
  /\ pub.inflight > 0
  /\ pub.calls[Answering(pub.calls)].kind = "append"
  /\ LET c == Answering(pub.calls)
     IN \/ \E error \in RemoteErrors : pub' = Caught(pub, c, error)
        \/ pub' = [pub EXCEPT
                     !.calls[c].done = TRUE,
                     !.calls[c].ok = TRUE,
                     !.inflight = @ - 1,
                     !.pc = IF pub.i < Len(pub.remaining) THEN "append" ELSE "done"]
  /\ UNCHANGED <<pageVars, ret, histVars, settings, workload, lastKey, req,
               initialized>>
  /\ UNCHANGED <<disk, ioVars>>

\* A stored key, and createPage called with blocks 1..n for any n.
InitPublish ==
  /\ pages = <<>>
  /\ config = [apiKey |-> Encrypt(<<65>>, CHOOSE iv \in IVs : TRUE),
               defaultPageId |-> Null]
  /\ lastKey = <<65>>
  /\ req = NoRequest
  /\ initialized = FALSE
  /\ nextId = 1
  /\ ret = [op |-> "none"]
  /\ history = <<>>
  /\ settings = [autoOpenNotion |-> FALSE, autoClearInput |-> TRUE,
                 maxFileSize |-> DefaultMaxFileSize]
  /\ nAdded = 0
  /\ workload = <<>>
  /\ \E n \in 0..MaxBlocks :
       pub = BeginPublish("p", <<"c">>, [k \in 1..n |-> k], 0)
  /\ Steady(TRUE)

NextPublish ==
  \/ PublishInit \/ PublishCreate \/ PublishCreated
  \/ PublishAppend \/ PublishAppended

SpecPublish == InitPublish /\ [][NextPublish]_vars

(* --------------------------- the stored key --------------------------- *)

\* setApiKey(apiKey) with a key of the set S.
SetApiKeyWith(S) ==
  /\ initialized' = TRUE
  /\ UNCHANGED <<pages, nextId, histVars, settings, workload, pub, req, callVars>>
  /\ \E apiKey \in S, iv \in IVs :
       /\ config' = [config EXCEPT
                       !.apiKey = IF apiKey # NullStr /\ apiKey # <<>>
                                  THEN Encrypt(apiKey, iv) ELSE NullStr]
       /\ lastKey' = apiKey
       /\ Write([op |-> "setApiKey"])

SetApiKey == SetApiKeyWith(Plaintexts)

\* getApiKey(): what it returns, or that decrypt threw out of it.
GetApiKey ==
  /\ ret' = [op |-> "getApiKey", token |-> config.apiKey,
             threw |-> GetApiKeyResult(config).threw,
             message |-> GetApiKeyResult(config).message,
             value |-> GetApiKeyResult(config).value]
  /\ initialized' = TRUE
  /\ UNCHANGED <<pageVars, histVars, settings, workload, pub, lastKey, req>>
  /\ UNCHANGED <<disk, ioVars>>

HasApiKey ==
  /\ ret' = [op |-> "hasApiKey",
             value |-> (config.apiKey # NullStr /\ config.apiKey # <<>>)]
  /\ initialized' = TRUE
  /\ UNCHANGED <<pageVars, histVars, settings, workload, pub, lastKey, req>>
  /\ UNCHANGED <<disk, ioVars>>

\* encrypt(text) called on its own; it reads nothing of the store, and is
\* called here on the store as constructed.
CallEncrypt ==
  /\ config.apiKey = NullStr /\ lastKey = NullStr
  /\ \E text \in Plaintexts, iv \in IVs :
       ret' = [op |-> "encrypt", text |-> text, value |-> Encrypt(text, iv)]
  /\ UNCHANGED <<pageVars, histVars, settings, workload, pub, lastKey, req,
               initialized>>
  /\ UNCHANGED <<disk, ioVars>>

\* decrypt called on what encrypt just returned.
CallDecrypt ==
  /\ ret.op = "encrypt"
  /\ ~Decrypt(ret.value).threw
  /\ ret' = [op |-> "decrypt", text |-> ret.text, token |-> ret.value,
             value |-> Decrypt(ret.value).value]
  /\ UNCHANGED <<pageVars, histVars, settings, workload, pub, lastKey, req,
               initialized>>
  /\ UNCHANGED <<disk, ioVars>>

NextKey == SetApiKey \/ GetApiKey \/ HasApiKey \/ CallEncrypt \/ CallDecrypt

SpecKey == Init /\ [][NextKey]_vars

(* ------------------------- a damaged stored key ----------------------- *)

\* What db.json can hold as config.apiKey after damage: the short strings of
\* base64 characters and colons; and a token that encrypt returned.
StoredTokens ==
  (UNION {[1..k -> {65, Colon}] : k \in 1..MaxTokenLen})
    \cup {Encrypt(<<65>>, CHOOSE iv \in IVs : TRUE)}

\* validatePageAccess(pageId) with the stored key.
ValidatePageAccess ==
  /\ \E access \in AccessOutcomes :
       ret' = IF InitClientThrows(config)
              THEN [op |-> "validatePageAccess", valid |-> FALSE, called |-> FALSE,
                    error |-> FormatError(InitClientError(config))]
              ELSE IF access.ok
              THEN [op |-> "validatePageAccess", valid |-> TRUE, called |-> TRUE,
                    error |-> ""]
              ELSE [op |-> "validatePageAccess", valid |-> FALSE, called |-> TRUE,
                    error |-> FormatError(access.error)]
  /\ initialized' = TRUE
  /\ UNCHANGED <<pageVars, histVars, settings, workload, pub, lastKey, req>>
  /\ UNCHANGED <<disk, ioVars>>

\* A document whose stored key is any of the tokens, and a publish begun.
InitDamaged ==
  /\ pages = <<>>
  /\ \E token \in StoredTokens :
       config = [apiKey |-> token, defaultPageId |-> Null]
  /\ lastKey = NullStr
  /\ req = NoRequest
  /\ initialized = FALSE
  /\ nextId = 1
  /\ ret = [op |-> "none"]
  /\ history = <<>>
  /\ settings = [autoOpenNotion |-> FALSE, autoClearInput |-> TRUE,
                 maxFileSize |-> DefaultMaxFileSize]
  /\ nAdded = 0
  /\ workload = <<>>
  /\ \E n \in {0, 1, MAX_BLOCKS_PER_REQUEST + 1} :
       pub = BeginPublish("p", <<"c">>, [k \in 1..n |-> k], 0)
  /\ Steady(TRUE)

NextDamaged ==
  \/ GetApiKey \/ HasApiKey \/ ValidatePageAccess
  \/ PublishInit \/ PublishCreate \/ PublishCreated
  \/ PublishAppend \/ PublishAppended

SpecDamaged == InitDamaged /\ [][NextDamaged]_vars

(* ------------------------- the upload handlers ------------------------ *)

\* array.find(p => p.id === id): its index, 0 for undefined.
FindPage(ps, id) == FindIndex(ps, id)

\* What the handlers consult of a Markdown text: the UTF-8 byte size of
\* the trimmed text (0 for a blank one), the title extractTitle finds in it,
\* and what the converter makes of it (so many blocks, or an exception).
Documents ==
  [bytes : {0, 1, DefaultMaxFileSize + 1}, title : {<<"A", "b">>},
   blocks : {0, MAX_BLOCKS_PER_REQUEST + 1}, converts : BOOLEAN]

\* validateMarkdown(markdown, maxSize).valid
ValidateMarkdown(doc, maxSize) == doc.bytes # 0 /\ doc.bytes <= maxSize

\* The routes, and for the multipart one what request.file() yields.
Routes == {"/api/upload", "/api/upload/file"}
Files == {"none", "notes.exe", "notes.md"}

\* The body's optional pageConfigId and title (null for absent or empty).
ConfigIdInputs == CallIds \cup {Null}
TitleInputs == {<<>>, <<"c">>}

\* The request answered with a status, not having reached the publisher.
Rejected(n, route, status) ==
  [NoRequest EXCEPT !.pc = "replied", !.n = n, !.route = route, !.status = status]

\* The request whose content the handler has read: what the content is like
\* (blank, larger than maxSize) and the pageConfigId sent with it.
Seen(request, doc, maxSize, pageConfigId) ==
  [request EXCEPT !.seen = TRUE, !.empty = (doc.bytes = 0),
                  !.oversize = (doc.bytes > maxSize), !.asked = pageConfigId]

\* How many pages the Notion API has created for earlier publishes.
Created == IF pub.pc = "idle" THEN 0 ELSE pub.created

\* An upload request arrives: the handler up to its call of createPage.
UploadReceive ==
  /\ req.pc \in {"idle", "replied"}
  /\ req.n < MaxRequests
  /\ \E route \in Routes, file \in Files, doc \in Documents,
        pageConfigId \in ConfigIdInputs, title \in TitleInputs :
       LET n == req.n + 1
           index == IF pageConfigId # Null THEN FindPage(pages, pageConfigId)
                    ELSE GetDefaultPage(pages)
           pageTitle == IF title # <<>> THEN title ELSE doc.title
       IN /\ route = "/api/upload" => file = "notes.md"
          /\ IF route = "/api/upload/file" /\ file = "none"
             THEN /\ req' = Rejected(n, route, 400)
                  /\ UNCHANGED <<pub, initialized>>
             ELSE IF route = "/api/upload/file" /\ file = "notes.exe"
             THEN /\ req' = Rejected(n, route, 400)
                  /\ UNCHANGED <<pub, initialized>>
             ELSE IF ~initialized
             THEN \* storage.db is null: reading .data throws
                  /\ req' = Seen(Rejected(n, route, 500), doc,
                                 settings.maxFileSize, pageConfigId)
                  /\ UNCHANGED <<pub, initialized>>
             ELSE IF ~ValidateMarkdown(doc, settings.maxFileSize)
             THEN /\ req' = Seen(Rejected(n, route, 400), doc,
                                 settings.maxFileSize, pageConfigId)
                  /\ UNCHANGED <<pub, initialized>>
             ELSE IF index = 0
             THEN /\ req' = Seen(Rejected(n, route, 400), doc,
                                 settings.maxFileSize, pageConfigId)
                  /\ UNCHANGED <<pub, initialized>>
             ELSE IF ~doc.converts
             THEN \* convertToBlocks throws: caught at the call in
                  \* /api/upload, by the handler's outer catch in
                  \* /api/upload/file
                  /\ req' = Seen([Rejected(n, route,
                                           IF route = "/api/upload" THEN 400 ELSE 500)
                                    EXCEPT !.conversions = 1],
                                 doc, settings.maxFileSize, pageConfigId)
                  /\ UNCHANGED <<pub, initialized>>
             ELSE /\ req' = Seen([pc |-> "publishing", n |-> n, route |-> route,
                                  title |-> pageTitle,
                                  pageConfigId |-> pages[index].id,
                                  seen |-> TRUE, empty |-> FALSE,
                                  oversize |-> FALSE, asked |-> pageConfigId,
                                  conversions |-> 1, converted |-> TRUE,
                                  reached |-> TRUE, records |-> 0, status |-> 0],
                                 doc, settings.maxFileSize, pageConfigId)
                  /\ pub' = BeginPublish(pages[index].pageId, pageTitle,
                                         [k \in 1..doc.blocks |-> k], Created)
                  /\ UNCHANGED initialized
  /\ UNCHANGED <<pageVars, ret, histVars, settings, workload, lastKey>>
  /\ UNCHANGED <<disk, ioVars>>

\* The object the handlers hand to addHistory (result.error || null).
UploadRecordOf(title, pageConfigId, result) ==
  [title |-> title,
   pageConfigId |-> pageConfigId,
   notionPageId |-> IF result.success THEN result.page.id ELSE Null,
   notionUrl |-> IF result.success THEN result.page.url ELSE Null,
   status |-> IF result.success THEN "success" ELSE "failed",
   error |-> IF Field(result, "error", "") # "" THEN result.error ELSE Null]

\* createPage has returned: the handler records the upload and answers.
UploadRecord ==
  /\ req.pc = "publishing"
  /\ pub.pc = "done"
  /\ LET record == UploadRecordOf(req.title, req.pageConfigId, pub.result)
         newRecord == NewRecord(record, RecordId(nAdded + 1))
     IN /\ history' = AddHistoryHistory(history, newRecord)
        /\ workload' = Append(workload, record)
        /\ ret' = [op |-> "addHistory", record |-> newRecord]
  /\ nAdded' = nAdded + 1
  /\ req' = [req EXCEPT !.pc = "replied", !.records = @ + 1,
                        !.status = IF pub.result.success THEN 200 ELSE 500]
  /\ initialized' = TRUE
  /\ UNCHANGED <<pageVars, settings, pub, lastKey, ioVars>>
  /\ disk' = [exists |-> TRUE, doc |-> Document']

\* The document after k addPage calls (the first page becomes the default).
RECURSIVE StoredAfter(_)
StoredAfter(k) ==
  IF k = 0
  THEN [pages |-> <<>>, config |-> [apiKey |-> NullStr, defaultPageId |-> Null]]
  ELSE LET before == StoredAfter(k - 1)
           newPage == NewPage([name |-> "a", pageId |-> "p"], nanoid(k))
       IN [pages |-> AddPagePages(before.pages, newPage),
           config |-> AddPageConfig(before.config, before.pages, newPage)]

\* A fresh process over a stored document: with no, one or two pages, with
\* or without a key.
InitUpload ==
  /\ \E k \in 0..1, key \in {NullStr, Encrypt(<<65>>, CHOOSE iv \in IVs : TRUE)} :
       /\ pages = StoredAfter(k).pages
       /\ config = [StoredAfter(k).config EXCEPT !.apiKey = key]
       /\ nextId = k + 1
       /\ lastKey = IF key = NullStr THEN NullStr ELSE <<65>>
  /\ ret = [op |-> "none"]
  /\ history = <<>>
  /\ settings = [autoOpenNotion |-> FALSE, autoClearInput |-> TRUE,
                 maxFileSize |-> DefaultMaxFileSize]
  /\ nAdded = 0
  /\ workload = <<>>
  /\ pub = NoPublish
  /\ req = NoRequest
  /\ initialized = FALSE
  /\ Steady(TRUE)

\* The upload handlers, and the status request the page makes on load.
NextUpload ==
  \/ UploadReceive \/ PublishInit \/ PublishCreate \/ PublishCreated
  \/ PublishAppend \/ PublishAppended \/ UploadRecord \/ HasApiKey

SpecUpload == InitUpload /\ [][NextUpload]_vars

(* ------------------------- page id extraction ------------------------- *)

\* A document with a stored key, and a value that extractPageId is about
\* to be called with.
InitExtract ==
  /\ pages = <<>>
  /\ config = [apiKey |-> Encrypt(<<65>>, CHOOSE iv \in IVs : TRUE),
               defaultPageId |-> Null]
  /\ nextId = 1
  /\ \E input \in ExtractInputs :
       ret = [op |-> "extractPageId", input |-> input, done |-> FALSE,
              value |-> Null]
  /\ history = <<>>
  /\ settings = [autoOpenNotion |-> FALSE, autoClearInput |-> TRUE,
                 maxFileSize |-> DefaultMaxFileSize]
  /\ nAdded = 0
  /\ workload = <<>>
  /\ pub = NoPublish
  /\ lastKey = <<65>>
  /\ req = NoRequest
  /\ initialized = FALSE
  /\ Steady(TRUE)

\* extractPageId(input) returns.
CallExtract ==
  /\ ret.op = "extractPageId" /\ ~ret.done
  /\ ret' = [ret EXCEPT !.done = TRUE, !.value = ExtractPageId(ret.input)]
  /\ UNCHANGED <<pageVars, histVars, settings, workload, pub, lastKey, req,
                 initialized>>
  /\ UNCHANGED <<disk, ioVars>>

\* POST /api/config/pages with the input as the body's pageUrl (a string of
\* at least one character, by the schema): the whole handler.
PostPage ==
  /\ ret.op = "extractPageId" /\ ~ret.done
  /\ ret.input.type = "string" /\ Len(ret.input.value) >= 1
  /\ nextId <= MaxIds
  /\ UNCHANGED <<histVars, settings, workload, pub, lastKey, req, ioVars>>
  /\ \E access \in AccessOutcomes, pageId \in {ExtractPageId(ret.input)} :
       LET newPage == NewPage([name |-> "a", pageId |-> pageId], nanoid(nextId))
       IN IF pageId = Null
          THEN /\ ret' = [op |-> "postPage", input |-> ret.input, status |-> 400,
                          calls |-> 0, error |-> "Invalid Notion page URL or ID"]
               /\ UNCHANGED <<pageVars, initialized, disk>>
          ELSE IF InitClientThrows(config)
          THEN /\ ret' = [op |-> "postPage", input |-> ret.input, status |-> 400,
                          calls |-> 0,
                          error |-> FormatError(InitClientError(config))]
               /\ initialized' = TRUE
               /\ UNCHANGED <<pageVars, disk>>
          ELSE IF ~access.ok
          THEN /\ ret' = [op |-> "postPage", input |-> ret.input, status |-> 400,
                          calls |-> 1, error |-> FormatError(access.error)]
               /\ initialized' = TRUE
               /\ UNCHANGED <<pageVars, disk>>
          ELSE /\ pages' = AddPagePages(pages, newPage)
               /\ config' = AddPageConfig(config, pages, newPage)
               /\ nextId' = nextId + 1
               /\ ret' = [op |-> "postPage", input |-> ret.input, status |-> 200,
                          calls |-> 1, page |-> AddPageReturn(pages, newPage)]
               /\ initialized' = TRUE
               /\ disk' = [exists |-> TRUE, doc |-> Document']

NextExtract == CallExtract \/ PostPage

(* --------------------------- storing the key -------------------------- *)

\* POST /api/config/api-key with a key of the set S: the whole handler.
\* validateApiKey calls users.me once with the key as sent and turns an
\* error into { valid: false }; setApiKey stores the key as sent.
PostApiKeyWith(S) ==
  /\ UNCHANGED <<pages, nextId, histVars, settings, workload, pub, req, callVars>>
  /\ \E apiKey \in S :
       IF ~IsValidApiKeyFormat(apiKey)
       THEN /\ ret' = [op |-> "postApiKey", apiKey |-> apiKey, status |-> 400,
                       calls |-> 0, error |-> "Invalid API key format"]
            /\ UNCHANGED <<config, lastKey, initialized, disk, failures>>
       ELSE \E answer \in AccessOutcomes :
              IF ~answer.ok
              THEN /\ ret' = [op |-> "postApiKey", apiKey |-> apiKey,
                              status |-> 400, calls |-> 1,
                              error |-> FormatError(answer.error)]
                   /\ UNCHANGED <<config, lastKey, initialized, disk, failures>>
              ELSE \E iv \in IVs :
                     /\ config' = [config EXCEPT
                                     !.apiKey = Encrypt(CodeUnits(apiKey), iv)]
                     /\ lastKey' = CodeUnits(apiKey)
                     /\ initialized' = TRUE
                     /\ Write([op |-> "postApiKey", apiKey |-> apiKey,
                               status |-> 200, calls |-> 1, error |-> ""])

PostApiKey == PostApiKeyWith(KeyInputs)

\* A stored document with or without a page and a key, and a page URL about
\* to be posted.
InitConfig ==
  /\ \E k \in 0..1, key \in {NullStr, Encrypt(<<65>>, CHOOSE iv \in IVs : TRUE)} :
       /\ pages = StoredAfter(k).pages
       /\ config = [StoredAfter(k).config EXCEPT !.apiKey = key]
       /\ nextId = k + 1
       /\ lastKey = IF key = NullStr THEN NullStr ELSE <<65>>
  /\ \E input \in UrlInputs :
       ret = [op |-> "extractPageId", input |-> input, done |-> FALSE,
              value |-> Null]
  /\ history = <<>>
  /\ settings = [autoOpenNotion |-> FALSE, autoClearInput |-> TRUE,
                 maxFileSize |-> DefaultMaxFileSize]
  /\ nAdded = 0
  /\ workload = <<>>
  /\ pub = NoPublish
  /\ req = NoRequest
  /\ initialized = FALSE
  /\ Steady(TRUE)

NextConfig == PostApiKey \/ PostPage

SpecConfig == InitConfig /\ [][NextConfig]_vars

(* ------------------------ every remote call ------------------------ *)

\* POST /api/config/api-key with a well-formed or an ill-formed key.
CheckApiKey == PostApiKeyWith({GoodKey, <<"a">>})

\* A stored document, a page URL about to be posted, and createPage called
\* with no block, or with blocks for the create call and two appends.
InitRemote ==
  /\ \E k \in 0..1, key \in {NullStr, Encrypt(<<65>>, CHOOSE iv \in IVs : TRUE)} :
       /\ pages = StoredAfter(k).pages
       /\ config = [StoredAfter(k).config EXCEPT !.apiKey = key]
       /\ nextId = k + 1
       /\ lastKey = IF key = NullStr THEN NullStr ELSE <<65>>
  /\ \E input \in UrlInputs :
       ret = [op |-> "extractPageId", input |-> input, done |-> FALSE,
              value |-> Null]
  /\ history = <<>>
  /\ settings = [autoOpenNotion |-> FALSE, autoClearInput |-> TRUE,
                 maxFileSize |-> DefaultMaxFileSize]
  /\ nAdded = 0
  /\ workload = <<>>
  /\ \E n \in {0, 2 * MAX_BLOCKS_PER_REQUEST + 1} :
       pub = BeginPublish("p", <<"c">>, [k \in 1..n |-> k], 0)
  /\ req = NoRequest
  /\ initialized = FALSE
  /\ Steady(TRUE)

NextRemote ==
  \/ CheckApiKey \/ PostPage
  \/ PublishInit \/ PublishCreate \/ PublishCreated
  \/ PublishAppend \/ PublishAppended

SpecRemote == InitRemote /\ [][NextRemote]_vars

SpecExtract == InitExtract /\ [][NextExtract]_vars

(* -------------------- requests on a stored document ------------------- *)

\* A record an earlier upload left in the history.
StoredRecord ==
  [title |-> <<"c">>, pageConfigId |-> nanoid(1), notionPageId |-> "n",
   notionUrl |-> "u", status |-> "success", error |-> Null]

\* A fresh process over a stored document of up to MaxIds pages.
InitStoredWith(canFail) ==
  /\ \E k \in 0..MaxIds :
       /\ pages = StoredAfter(k).pages
       /\ config = StoredAfter(k).config
       /\ nextId = k + 1
  /\ ret = [op |-> "none"]
  /\ history = <<>>
  /\ settings = [autoOpenNotion |-> FALSE, autoClearInput |-> TRUE,
                 maxFileSize |-> DefaultMaxFileSize]
  /\ nAdded = 0
  /\ workload = <<StoredRecord>>
  /\ pub = NoPublish
  /\ lastKey = NullStr
  /\ req = NoRequest
  /\ initialized = FALSE
  /\ FileWith(TRUE, canFail)

InitStored == InitStoredWith(0)

NextStored == RenamePage \/ DeletePage \/ AddHistory \/ UpdateSettings

SpecStored == InitStored /\ [][NextStored]_vars

\* The stored document on a file whose writes can fail (a full disk, a
\* directory that lost its write permission).
InitFlaky == InitStoredWith(MaxFailures)

\* setApiKey with one key or with none.
StoreApiKey == SetApiKeyWith({<<65>>, NullStr})

NextFlaky ==
  \/ AddPage \/ RenamePage \/ DeletePage \/ AddHistory \/ UpdateSettings
  \/ StoreApiKey

SpecFlaky == InitFlaky /\ [][NextFlaky]_vars

(* ------------------------ two calls at once -------------------------- *)
(* Node runs a handler from one await to the next without interruption. An  *)
(* addPage call is three such runs: up to `await this.db.read()` in init()  *)
(* (skipped once initialized), from there to `await this.db.write()`, and   *)
(* the return. Of lowdb the model keeps: `new Low(adapter, defaultData)`    *)
(* starts with data = defaultData (the object itself), read() replaces data *)
(* by the parsed file if there is one, write() serialises data when called  *)
(* and one adapter puts its writes on disk in the order of the calls.       *)

\* low.data
Data(low, shared) == IF low.shared THEN shared ELSE low.doc

\* The handlers see storage.db.data; storage.db is the last Low made.
Sees(doc) ==
  /\ pages' = doc.pages
  /\ config' = doc.config
  /\ history' = doc.history
  /\ settings' = doc.settings

\* addPage from after `await this.init()` to `await this.db.write()`, for
\* call t, the Low instances being ls.
MutateAndWrite(t, ls) ==
  LET last == Len(ls)
      data == Data(ls[last], defaults)
      newPage == NewPage(tasks[t].page, nanoid(nextId))
      mutated == [data EXCEPT
                    !.pages = AddPagePages(data.pages, newPage),
                    !.config = AddPageConfig(data.config, data.pages, newPage)]
  IN /\ nextId' = nextId + 1
     /\ initialized' = TRUE
     /\ IF ls[last].shared
        THEN /\ defaults' = mutated
             /\ lows' = ls
        ELSE /\ defaults' = defaults
             /\ lows' = [ls EXCEPT ![last].doc = mutated]
     /\ Sees(mutated)
     /\ writes' = Append(writes, [task |-> t, low |-> last, doc |-> mutated])
     /\ tasks' = [tasks EXCEPT ![t].pc = "writing",
                               ![t].result = AddPageReturn(data.pages, newPage)]

\* A request calls addPage: init() makes a Low and starts to read the file,
\* unless the store is initialized.
CallAddPage ==
  /\ \E t \in 1..Len(tasks) :
       /\ tasks[t].pc = "idle"
       /\ nextId <= MaxIds + Len(tasks)
       /\ IF initialized
          THEN MutateAndWrite(t, lows)
          ELSE /\ lows' = Append(lows, [shared |-> TRUE, doc |-> DefaultData])
               /\ tasks' = [tasks EXCEPT ![t].pc = "reading",
                                         ![t].low = Len(lows) + 1]
               /\ Sees(defaults)
               /\ UNCHANGED <<nextId, initialized, defaults, writes>>
  /\ UNCHANGED <<ret, nAdded, workload, pub, lastKey, req, disk, failures>>

\* The read of a call's init() completes; the call runs on to its write.
ReadDone ==
  /\ \E t \in 1..Len(tasks) :
       /\ tasks[t].pc = "reading"
       /\ MutateAndWrite(t,
            IF disk.exists
            THEN [lows EXCEPT ![tasks[t].low] = [shared |-> FALSE, doc |-> disk.doc]]
            ELSE lows)
  /\ UNCHANGED <<ret, nAdded, workload, pub, lastKey, req, disk, failures>>

\* A write reaches the file, the earlier writes of its adapter having done
\* so; its call returns the new page.
WriteDone ==
  /\ \E i \in 1..Len(writes) :
       /\ \A j \in 1..(i - 1) : writes[j].low # writes[i].low
       /\ disk' = [exists |-> TRUE, doc |-> writes[i].doc]
       /\ writes' = SubSeq(writes, 1, i - 1) \o SubSeq(writes, i + 1, Len(writes))
       /\ tasks' = [tasks EXCEPT ![writes[i].task].pc = "done"]
       /\ ret' = [op |-> "addPage", page |-> tasks[writes[i].task].result]
  /\ UNCHANGED <<pageVars, histVars, settings, workload, pub, lastKey, req,
               initialized, failures, lows, defaults>>

\* A request that is about to call addPage(page).
Pending(page) == [pc |-> "idle", page |-> page, low |-> 0, result |-> Null]

\* db.json is missing or holds up to MaxIds - 1 pages; the store is yet to
\* be initialized or was by an earlier request; two requests to add a page
\* have arrived.
InitTwoCalls ==
  /\ \E k \in 0..(MaxIds - 1), exists \in BOOLEAN, done \in BOOLEAN :
       /\ k > 0 => exists
       /\ pages = StoredAfter(k).pages
       /\ config = StoredAfter(k).config
       /\ nextId = k + 1
       /\ initialized = done
       /\ history = <<>>
       /\ settings = DefaultData.settings
       /\ disk = [exists |-> exists, doc |-> Document]
       /\ lows = IF done THEN <<[shared |-> ~exists, doc |-> Document]>> ELSE <<>>
  /\ defaults = DefaultData
  /\ failures = 0
  /\ writes = <<>>
  /\ \E second \in {[name |-> "b", pageId |-> "p"],
                     [name |-> "b", pageId |-> "p", isDefault |-> TRUE]} :
       tasks = <<Pending([name |-> "a", pageId |-> "p"]), Pending(second)>>
  /\ ret = [op |-> "none"]
  /\ nAdded = 0
  /\ workload = <<>>
  /\ pub = NoPublish
  /\ lastKey = NullStr
  /\ req = NoRequest

NextTwoCalls == CallAddPage \/ ReadDone \/ WriteDone

SpecTwoCalls == InitTwoCalls /\ [][NextTwoCalls]_vars

\* PUT /api/settings with any body.
PutSettings == UpdateSettingsWith(AllSettingsInputs)

NextSettings == PutSettings \/ AddHistory \/ DeletePage

SpecSettings == InitStored /\ [][NextSettings]_vars

(* ------------------------- the page collection ------------------------ *)

\* The positions of the pages marked default.
Defaults(ps) == {i \in 1..Len(ps) : ps[i].isDefault}

\* Two pages agree on every field but isDefault.
SameButDefault(p, q) ==
  /\ DOMAIN p = DOMAIN q
  /\ \A k \in DOMAIN p \ {"isDefault"} : p[k] = q[k]

\* C1: whenever the page collection is non-empty, exactly one page has
\* isDefault = true (after any addPage, updatePage and deletePage calls).
C1_ExactlyOneDefault ==
  Len(pages) > 0 => Cardinality(Defaults(pages)) = 1

\* C2: in every reachable state at most one page has isDefault = true.
C2_AtMostOneDefault == Cardinality(Defaults(pages)) <= 1

\* What C3 promises of a step deletePage(id) that found the page at k.
C3_Post(k) ==
  LET wasDefault == pages[k].isDefault
      firstLeft == IF k = 1 THEN pages[2] ELSE pages[1]
  IN /\ Len(pages') = Len(pages) - 1
     /\ (wasDefault /\ Len(pages) > 1) =>
          /\ Defaults(pages') = {1}
          /\ SameButDefault(pages'[1], firstLeft)
          /\ config'.defaultPageId = pages'[1].id
     /\ (wasDefault /\ Len(pages) = 1) =>
          config'.defaultPageId = Null
     /\ ~wasDefault =>
          /\ config'.defaultPageId = config.defaultPageId
          /\ {pages'[i] : i \in Defaults(pages')}
               = {pages[i] : i \in Defaults(pages)}

\* C3: deletePage of the default page makes the first remaining page the
\* only default and points config.defaultPageId at it, or clears the pointer
\* when no page remains; deletePage of a non-default page leaves the default
\* page and config.defaultPageId unchanged.
C3_DeleteReassignsDefault ==
  [][\A id \in CallIds :
       (/\ FindIndex(pages, id) # 0
        /\ ret'.op = "deletePage"
        /\ pages' = DeletePagePages(pages, id)
        /\ config' = DeletePageConfig(config, pages, id))
       => C3_Post(FindIndex(pages, id))]_vars

\* What C9 promises of a step addPage(page).
C9_Post(page) ==
  LET n == Len(pages)
      new == ret'.page
  IN /\ Len(pages') = n + 1
     /\ pages'[n + 1] = new
     /\ new.name = page.name /\ new.pageId = page.pageId
     /\ \A i \in 1..n : pages[i].id # new.id
     /\ IF n = 0 \/ Field(page, "isDefault", FALSE)
        THEN /\ Defaults(pages') = {n + 1}
             /\ config'.defaultPageId = new.id
             /\ \A i \in 1..n : SameButDefault(pages'[i], pages[i])
        ELSE /\ ~new.isDefault
             /\ \A i \in 1..n : pages'[i] = pages[i]
             /\ config' = config

\* C9: addPage returns the stored page, whose id no existing page has; the
\* new page becomes the only default (config.defaultPageId its id) if the
\* collection was empty or the caller passed isDefault = true; otherwise it is
\* stored non-default and the other pages and config are unchanged.
C9_AddPage ==
  [][\A page \in AddInputs :
       (/\ nextId' = nextId + 1
        /\ ret'.op = "addPage"
        /\ pages' = AddPagePages(pages, NewPage(page, nanoid(nextId))))
       => C9_Post(page)]_vars

\* C9's case: a page was added as default over an existing page.
C9_Witness ==
  /\ ret.op = "addPage"
  /\ Len(pages) >= 2
  /\ ret.page = pages[Len(pages)]
  /\ Defaults(pages) = {Len(pages)}
  /\ config.defaultPageId = ret.page.id

\* What C10 promises of a step updatePage(id, fields) that found page k.
C10_Post(k) ==
  /\ Len(pages') = Len(pages)
  /\ Defaults(pages') = {k}
  /\ config'.defaultPageId = pages'[k].id
  /\ \A j \in 1..Len(pages) : j # k => SameButDefault(pages'[j], pages[j])

\* C10: updatePage(id, fields) with fields.isDefault = true on a known id
\* leaves that page the only default page and sets config.defaultPageId to
\* its id; the other pages' remaining fields are unchanged.
C10_UpdateSetsDefault ==
  [][\A id \in CallIds : \A updates \in UpdateInputs :
       (/\ FindIndex(pages, id) # 0
        /\ Field(updates, "isDefault", FALSE)
        /\ ret'.op = "updatePage"
        /\ pages' = UpdatePagePages(pages, id, updates)
        /\ config' = UpdatePageConfig(config, id, updates))
       => C10_Post(FindIndex(pages, id))]_vars

\* No stored page has the id.
Unknown(id) == \A i \in 1..Len(pages) : pages[i].id # id

\* C11: updatePage and deletePage called with an id that matches no stored
\* page return the not-found signal (null, respectively false) without
\* throwing, leave pages, config, history and settings unchanged, and the
\* handlers answer 404.
C11_UnknownId ==
  [][\A id \in CallIds :
       (/\ Unknown(id)
        /\ ret'.op \in {"updatePage", "deletePage"}
        /\ ret'.id = id)
       => /\ ret'.op = "updatePage" => ~ret'.found
          /\ ret'.op = "deletePage" => ~ret'.deleted
          /\ ret'.status = 404
          /\ UNCHANGED <<pages, config, history, settings>>]_vars

\* C11's case: an unknown id was asked for while pages, a history record
\* and changed settings were stored.
C11_Witness ==
  /\ ret.op \in {"updatePage", "deletePage"}
  /\ Unknown(ret.id) /\ ret.status = 404
  /\ Len(pages) >= 1 /\ Len(history) = 1 /\ settings.autoOpenNotion

(* ------------------------- page id extraction ------------------------- *)

\* The string is n hexadecimal characters.
AllHex(str, n) == Len(str) = n /\ \A i \in 1..n : str[i] \in HexDigits

\* The string has the shape 8-4-4-4-12 of hexadecimal groups.
DashedShape(str) ==
  /\ Len(str) = 36
  /\ AllHex(SubSeq(str, 1, 8), 8) /\ str[9] = "-"
  /\ AllHex(SubSeq(str, 10, 13), 4) /\ str[14] = "-"
  /\ AllHex(SubSeq(str, 15, 18), 4) /\ str[19] = "-"
  /\ AllHex(SubSeq(str, 20, 23), 4) /\ str[24] = "-"
  /\ AllHex(SubSeq(str, 25, 36), 12)

\* extractPageId has returned from a call with a string.
Extracted == ret.op = "extractPageId" /\ ret.done /\ ret.input.type = "string"

\* C13: extractPageId returns an input of exactly 32 hexadecimal characters
\* unchanged (case preserved), and an input of dashed-UUID shape with the
\* dashes removed and case preserved, whatever else the input could be
\* matched as.
C13_RawAndDashed ==
  Extracted =>
    LET str == ret.input.value
    IN /\ AllHex(str, 32) => ret.value = str
       /\ DashedShape(str) =>
            ret.value = SubSeq(str, 1, 8) \o SubSeq(str, 10, 13)
                          \o SubSeq(str, 15, 18) \o SubSeq(str, 20, 23)
                          \o SubSeq(str, 25, 36)

\* C13's case: the dashed upper-case id was given and came back undashed.
C13_Witness ==
  /\ Extracted
  /\ ret.input.value = DashedA
  /\ AllHex(ret.value, 32) /\ ret.value[1] = "A" /\ ret.value[9] = "E"

\* A workspace segment: empty, or characters other than "/" and then "/".
WorkspacePart(str) ==
  \/ str = <<>>
  \/ /\ Len(str) >= 2 /\ str[Len(str)] = "/"
     /\ \A i \in 1..(Len(str) - 1) : str[i] # "/"

\* Slug segments: empty, or non-empty runs without "-", each ended by "-".
SlugPart(str) ==
  \/ str = <<>>
  \/ /\ str[1] # "-" /\ str[Len(str)] = "-"
     /\ \A i \in 1..(Len(str) - 1) : ~(str[i] = "-" /\ str[i + 1] = "-")

\* From position p the string reads notion.so/ (as written, or in any
\* letter case), an optional workspace segment, optional slug segments and
\* 32 hexadecimal characters that end at position e.
LinkShape(str, p, e, anyCase) ==
  /\ p + 9 <= Len(str) /\ e <= Len(str)
  /\ \A k \in 1..10 :
       (IF anyCase THEN FoldCase(str[p + k - 1]) ELSE str[p + k - 1]) = NotionSo[k]
  /\ e - 31 >= p + 10
  /\ AllHex(SubSeq(str, e - 31, e), 32)
  /\ \E k \in (p + 9)..(e - 32) :
       /\ WorkspacePart(SubSeq(str, p + 10, k))
       /\ SlugPart(SubSeq(str, k + 1, e - 32))

\* The positions at which the string reads notion.so/ in any letter case.
LinkStarts(str) ==
  {p \in 1..(Len(str) - 9) : \A k \in 1..10 : FoldCase(str[p + k - 1]) = NotionSo[k]}

\* C14: for an input containing notion.so/ followed by an optional workspace
\* segment and optional dash-separated slug segments and terminating in a
\* run of 32 hexadecimal characters, extractPageId returns that terminating
\* run, not an earlier or shifted one.
C14_LinkId ==
  Extracted =>
    LET str == ret.input.value
    IN (\E p \in 1..Len(str) : LinkShape(str, p, Len(str), FALSE))
         => ret.value = SubSeq(str, Len(str) - 31, Len(str))

\* C14 for the inputs whose first notion.so/ (in any letter case) is the one
\* so followed.
C14_FirstLinkId ==
  Extracted =>
    LET str == ret.input.value
    IN (\E p \in LinkStarts(str) :
          /\ \A o \in LinkStarts(str) : p <= o
          /\ LinkShape(str, p, Len(str), TRUE))
         => ret.value = SubSeq(str, Len(str) - 31, Len(str))

\* C14's case: the documented link, with workspace and title, gave its id.
C14_Witness ==
  /\ Extracted
  /\ ret.input.value = ExampleLink
  /\ ret.value = HexA

\* The string has one of the documented shapes: 32 hexadecimal characters,
\* a dashed UUID, a notion.so/ link with an id, or a run of 32 hexadecimal
\* characters followed by the end or by "?".
Documented(str, anyCase) ==
  LET starts == {p \in 1..(Len(str) - 9) :
                   \A k \in 1..10 :
                     (IF anyCase THEN FoldCase(str[p + k - 1])
                      ELSE str[p + k - 1]) = NotionSo[k]}
      ends == {e \in 32..Len(str) : AllHex(SubSeq(str, e - 31, e), 32)}
  IN \/ AllHex(str, 32)
     \/ DashedShape(str)
     \/ \E p \in starts, e \in ends : LinkShape(str, p, e, anyCase)
     \/ \E e \in ends : e = Len(str) \/ str[e + 1] = "?"

\* The string without the white space around it.
Unpadded(str) ==
  LET inked == {i \in 1..Len(str) : str[i] \notin {" ", "\t", "\n"}}
      first == CHOOSE j \in inked : \A i \in inked : j <= i
      last == CHOOSE j \in inked : \A i \in inked : j >= i
  IN IF inked = {} THEN <<>> ELSE SubSeq(str, first, last)

\* The documented shapes looked for in the input as it was given.
AsGiven(str) == Documented(str, FALSE)

\* The documented shapes looked for in the input without the white space
\* around it, notion.so/ in any letter case.
Trimmed(str) == Documented(Unpadded(str), TRUE)

\* What C15 says of the value returned and of the handler's answer.
C15_State(shaped(_)) ==
  /\ (ret.op = "extractPageId" /\ ret.done) =>
       /\ ret.value = Null \/ AllHex(ret.value, 32)
       /\ ret.input.type # "string" => ret.value = Null
       /\ (ret.input.type = "string" /\ ret.input.value = ExampleText)
            => ret.value = Null
       /\ (ret.input.type = "string" /\ ~shaped(ret.input.value))
            => ret.value = Null
  /\ (ret.op = "postPage" /\ ~shaped(ret.input.value)) => ret.status = 400

\* What C15 says of the handler's step.
C15_Step(shaped(_)) ==
  (ret'.op = "postPage" /\ ret.op # "postPage" /\ ~shaped(ret'.input.value))
    => UNCHANGED <<pages, config, nextId, history, settings>>

\* C15: for every input (null, non-strings and arbitrary text included)
\* extractPageId returns null or a string of exactly 32 hexadecimal
\* characters; an input matching none of the documented shapes (such as
\* "not a notion link") yields null, and the handler answers it with a 400
\* and stores nothing.
C15_NullOrId == []C15_State(AsGiven) /\ [][C15_Step(AsGiven)]_vars

\* C15 with the shapes looked for in the input without the white space
\* around it, notion.so/ in any letter case.
C15_NullOrIdTrimmed == []C15_State(Trimmed) /\ [][C15_Step(Trimmed)]_vars

\* C15's case: the handler was given text that is no link, answered 400 and
\* stored nothing.
C15_Witness ==
  /\ ret.op = "postPage"
  /\ ret.input.value = ExampleText
  /\ ret.status = 400 /\ pages = <<>>

(* --------------------------- a damaged key ---------------------------- *)

\* The token has no ":", or nothing before the first ":", or nothing between
\* it and the next ":" or the end.
Malformed(token) ==
  LET colons == {i \in 1..Len(token) : token[i] = Colon}
      first == CHOOSE i \in colons : \A j \in colons : i <= j
  IN \/ colons = {}
     \/ first = 1 \/ first = Len(token)
     \/ token[first + 1] = Colon

FormatMessage == "Invalid encrypted text format"

\* C16: decrypt of a token without ":" (or with an empty IV or ciphertext
\* part) fails with the format error; with such a token stored, getApiKey,
\* page validation and publish each end in that error, reported, never in
\* "not configured" and never in a call to Notion with the value as key.
C16_DamagedKey ==
  Malformed(config.apiKey) =>
    /\ ret.op = "getApiKey" =>
         ret.threw /\ ret.message = FormatMessage
    /\ ret.op = "validatePageAccess" =>
         ~ret.valid /\ ~ret.called /\ ret.error = FormatMessage
    /\ pub.pc = "done" =>
         /\ ~pub.result.success /\ pub.result.error = FormatMessage
         /\ pub.calls = <<>>
    /\ pub.pc \notin {"init", "done"} => FALSE

\* C16's case: a stored token without ":" and a publish that ended in the
\* format error, after page validation reported it too.
C16_Witness ==
  /\ \A i \in 1..Len(config.apiKey) : config.apiKey[i] # Colon
  /\ pub.pc = "done" /\ pub.result.error = FormatMessage
  /\ ret.op = "validatePageAccess" /\ ret.error = FormatMessage

(* ------------------------- two calls at once -------------------------- *)

\* The ids of the pages of a document.
PageIdsOf(doc) == {doc.pages[i].id : i \in 1..Len(doc.pages)}

\* C17: after two near-simultaneous addPage calls, in any interleaving
\* (also when both arrive before the store is initialized), both pages are
\* in memory and on disk, no page stored before is lost, and exactly one
\* page is the default.
C17_BothPagesKept ==
  (\A t \in 1..Len(tasks) : tasks[t].pc = "done") =>
    /\ \A n \in 1..(nextId - 1) :
         nanoid(n) \in PageIdsOf(Document) /\ nanoid(n) \in PageIdsOf(disk.doc)
    /\ Cardinality({i \in 1..Len(pages) : pages[i].isDefault}) = 1

(* --------------------------- a failed write --------------------------- *)

\* The last mutator's write threw.
WriteFailed == "failed" \in DOMAIN ret

\* C18: if the write step of addPage, updatePage, deletePage, addHistory,
\* setApiKey or the settings update fails, the document later reads return
\* (db.data) is the document from before the mutation.
C18_FailedWriteKeepsDocument == [][WriteFailed' => Document' = Document]_vars

(* ---------------------------- the settings ---------------------------- *)

\* The settings of a store that no update has touched.
InitialSettings ==
  [autoOpenNotion |-> FALSE, autoClearInput |-> TRUE, maxFileSize |-> 10485760]

\* C12: a settings update merges shallowly: every key present in the update
\* takes the new value and every setting key absent from the update keeps
\* its previous value (initially autoOpenNotion = false, autoClearInput =
\* true, maxFileSize = 10485760); pages, config and history are unchanged.
C12_SettingsMerge ==
  /\ (ret.op = "none" => settings = InitialSettings)
  /\ [][ret'.op = "putSettings" =>
          LET updates == ret'.updates
          IN /\ DOMAIN settings' = DOMAIN settings \cup DOMAIN updates
             /\ \A key \in DOMAIN updates : settings'[key] = updates[key]
             /\ \A key \in DOMAIN settings \ DOMAIN updates :
                  settings'[key] = settings[key]
             /\ ret'.settings = settings'
             /\ UNCHANGED <<pages, config, history>>]_vars

\* C12's case: with pages and a history record stored, an update of one key
\* was merged into settings that an earlier update had changed.
C12_Witness ==
  /\ ret.op = "putSettings"
  /\ ret.updates = [autoClearInput |-> FALSE]
  /\ settings.autoOpenNotion /\ settings.maxFileSize = MinMaxFileSize
  /\ ~settings.autoClearInput
  /\ Len(pages) >= 1 /\ Len(history) = 1

(* ----------------------------- the history ---------------------------- *)

\* The smaller of two numbers.
Min(a, b) == IF a < b THEN a ELSE b

\* The record at position i is the k-th one appended, as it was handed over.
IsAppended(r, k) ==
  LET u == Upload(k)
  IN /\ r.id = RecordId(k)
     /\ r.title = u.title
     /\ r.pageConfigId = u.pageConfigId
     /\ r.notionPageId = u.notionPageId
     /\ r.notionUrl = u.notionUrl
     /\ r.status = u.status
     /\ r.error = u.error

\* C4: after n addHistory calls, interleaved with page and settings
\* operations, the history holds exactly the min(n, 100) most recently
\* appended records, unmodified and newest first.
C4_HistoryIsLastHundred ==
  /\ Len(history) = Min(nAdded, 100)
  /\ \A i \in 1..Len(history) : IsAppended(history[i], nAdded + 1 - i)

\* C4's case: the 101st append, among page and settings requests, evicted
\* the oldest record.
C4_Witness ==
  /\ nAdded = 101
  /\ ret.op = "addHistory"
  /\ Len(history) = 100
  /\ history[100].id = RecordId(2)
  /\ Len(pages) > 0
  /\ settings.autoOpenNotion

\* Two characters are the same letter, whatever their case.
SameLetter(a, b) == ToLowerChar(a) = ToLowerChar(b)

\* title contains search, case-insensitively.
TitleMatches(title, search) ==
  \E k \in 0..(Len(title) - Len(search)) :
     \A j \in 1..Len(search) : SameLetter(title[k + j], search[j])

\* The positions of the history's records whose title matches.
Matching(search) ==
  {i \in 1..Len(history) : TitleMatches(history[i].title, search)}

\* The j-th smallest member of a set of numbers.
Nth(S, j) == CHOOSE i \in S : Cardinality({x \in S : x < i}) = j - 1

\* C8: getHistory(limit, search) returns, newest first, the first `limit`
\* records among those whose title contains `search` case-insensitively (all
\* records when search is empty): the filter comes before the limit, and
\* the result has at most `limit` and at most 100 entries.
C8_GetHistory ==
  ret.op = "getHistory" =>
    LET M == Matching(ret.search)
        r == ret.result
    IN /\ Len(r) = Min(ret.limit, Cardinality(M))
       /\ Len(r) <= 100
       /\ \A j \in 1..Len(r) : r[j] = history[Nth(M, j)]

\* C8's case: the only record returned lies beyond the first `limit`
\* records of the unfiltered history.
C8_Witness ==
  /\ ret.op = "getHistory"
  /\ ret.limit = 1
  /\ ret.search = <<"C">>
  /\ Len(history) >= 3
  /\ Cardinality(Matching(ret.search)) >= 2
  /\ ~TitleMatches(history[1].title, ret.search)
  /\ ret.result = <<history[2]>>

(* ---------------------------- publishing ------------------------------ *)

\* The blocks of all calls, one after the other in call order.
RECURSIVE Concat(_)
Concat(cs) ==
  IF cs = <<>> THEN <<>> ELSE cs[1].children \o Concat(Tail(cs))

\* n / 100 rounded up.
CeilDiv100(n) == (n + 99) \div 100

\* C5: createPage with n blocks makes exactly max(1, ceil(n/100)) remote
\* calls when none fails: one page-create call with the first min(n, 100)
\* blocks, then append calls of at most 100 blocks each, whose blocks, in
\* call order, are the input block sequence.
C5_Batching ==
  (pub.pc = "done" /\ pub.result.success) =>
    LET n == Len(pub.blocks)
        cs == pub.calls
    IN /\ Len(cs) = (IF n = 0 THEN 1 ELSE CeilDiv100(n))
       /\ cs[1].kind = "create"
       /\ Len(cs[1].children) = Min(n, 100)
       /\ \A c \in 2..Len(cs) :
            /\ cs[c].kind = "append"
            /\ Len(cs[c].children) \in 1..100
       /\ Concat(cs) = pub.blocks

\* C5's case: 250 blocks went out as batches of 100, 100 and 50.
C5_Witness ==
  /\ pub.pc = "done"
  /\ pub.result.success
  /\ Len(pub.blocks) = 250
  /\ Len(pub.calls) = 3
  /\ Len(pub.calls[1].children) = 100
  /\ Len(pub.calls[2].children) = 100
  /\ Len(pub.calls[3].children) = 50

\* C19: within one publish the remote calls go out one after the other in
\* source order: the page-create call has completed before the first
\* append is issued, a batch is issued only after the batch before it has
\* completed successfully, and never are two calls in flight.
C19_OneCallAtATime ==
  pub.pc # "idle" =>
    /\ pub.inflight <= 1
    /\ pub.inflight = Cardinality({c \in 1..Len(pub.calls) : ~pub.calls[c].done})
    /\ \A c \in 1..Len(pub.calls) :
         /\ pub.calls[c].kind = (IF c = 1 THEN "create" ELSE "append")
         /\ \A b \in 1..(c - 1) : pub.calls[b].done /\ pub.calls[b].ok

\* C19's case: the third call of a publish is in flight, the two before it
\* have completed.
C19_Witness ==
  /\ pub.pc = "appending"
  /\ Len(pub.calls) = 3
  /\ pub.inflight = 1
  /\ pub.calls[1].ok /\ pub.calls[2].ok /\ ~pub.calls[3].done

(* ----------------------------- the uploads ---------------------------- *)

\* The step by which the handler answers a request it sent to the publisher.
C6_Answers == req.pc = "publishing" /\ req'.pc = "replied"

\* C6: every upload request that reaches the publisher appends exactly one
\* history record, after the publisher returns; the record of a failed
\* publish has status 'failed', a non-empty error and null notionPageId and
\* notionUrl, the record of a successful one has status 'success', the
\* created page's id and url and a null error.
C6_OneRecordPerPublish ==
  /\ [](req.reached =>
          /\ req.pc = "replied" => req.records = 1
          /\ req.pc = "publishing" => req.records = 0)
  /\ [][/\ C6_Answers =>
             /\ pub.pc = "done"
             /\ nAdded' = nAdded + 1
             /\ Len(history') = Min(Len(history) + 1, HistoryCap)
             /\ \A k \in 2..Len(history') : history'[k] = history[k - 1]
             /\ LET r == history'[1]
                IN /\ r.title = req.title
                   /\ IF pub.result.success
                      THEN /\ r.status = "success"
                           /\ r.notionPageId = pub.response.id
                           /\ r.notionUrl = pub.response.url
                           /\ r.notionPageId # Null /\ r.notionUrl # Null
                           /\ r.error = Null
                      ELSE /\ r.status = "failed"
                           /\ r.error # Null /\ r.error # ""
                           /\ r.notionPageId = Null
                           /\ r.notionUrl = Null
        /\ history' # history => C6_Answers]_vars

\* C6's case: two uploads were published and answered, one recorded as a
\* success, the other as a failure after its page had been created.
C6_Witness ==
  /\ req.pc = "replied" /\ req.reached /\ req.n = 2
  /\ Len(history) = 2
  /\ history[1].status = "failed" /\ pub.response.id # Null
  /\ history[2].status = "success"

\* The step by which a handler answers a request whose Markdown the
\* converter failed on.
C20_ConverterFailed ==
  /\ req'.n = req.n + 1
  /\ req'.pc = "replied"
  /\ req'.conversions > 0 /\ ~req'.converted

\* C20: when the Markdown converter fails, POST /api/upload and POST
\* /api/upload/file answer with a 4xx status, the conversion is not tried
\* again, no remote call is made and no history record is appended.
C20_ConverterFailureIs4xx ==
  [][C20_ConverterFailed =>
       /\ req'.status \in 400..499
       /\ req'.conversions = 1
       /\ UNCHANGED <<pub, history, nAdded>>]_vars

(* ----------------------------- the secret ----------------------------- *)

\* null or the empty string: what `!text` is true of.
IsEmpty(text) == text = NullStr \/ text = <<>>

\* No surrogate code unit of the string is unpaired.
RECURSIVE WellFormed(_)
WellFormed(u) ==
  IF u = <<>> THEN TRUE
  ELSE IF IsHighSurrogate(u[1])
  THEN Len(u) >= 2 /\ IsLowSurrogate(u[2]) /\ WellFormed(Tail(Tail(u)))
  ELSE ~IsLowSurrogate(u[1]) /\ WellFormed(Tail(u))

\* What C7 says of the calls, for the strings x that P is true of.
C7_For(P(_)) ==
  /\ (ret.op = "encrypt" /\ IsEmpty(ret.text)) => ret.value = NullStr
  /\ ret.op = "decrypt" =>
       /\ ret.token = NullStr => ret.value = NullStr
       /\ (~IsEmpty(ret.text) /\ P(ret.text)) => ret.value = ret.text
  /\ ret.op = "getApiKey" =>
       /\ IsEmpty(lastKey) => ret.value = NullStr
       /\ (~IsEmpty(lastKey) /\ P(lastKey)) => ret.value = lastKey
  /\ ret.op = "hasApiKey" => (ret.value <=> ~IsEmpty(lastKey))

\* C7: decrypt(encrypt(x)) = x for every non-empty string x;
\* encrypt(null or empty) = null and decrypt(null) = null; getApiKey after
\* setApiKey(x) returns x, and getApiKey returns null (hasApiKey false) when
\* no key was set or after setApiKey(null).
C7_RoundTrip ==
  LET any(x) == TRUE
  IN C7_For(any)

\* C7 as amended: the same, for the strings x without an unpaired surrogate
\* code unit.
C7_RoundTripWellFormed == C7_For(WellFormed)

\* C7's case: a key of two code units (a surrogate pair, four bytes of
\* UTF-8) was stored encrypted and read back.
C7_Witness ==
  /\ ret.op = "getApiKey"
  /\ lastKey = <<55357, 56832>>
  /\ config.apiKey # NullStr
  /\ ret.value = lastKey

(* --------------------------- no call is retried ------------------------ *)

\* The calls of the publish that threw.
FailedCalls == {c \in 1..Len(pub.calls) : pub.calls[c].done /\ ~pub.calls[c].ok}

\* What C21 says of a state: the publish has issued at most one create call
\* and each batch in at most one append call, a call that threw is the last
\* one issued and createPage has returned the failure; a config request has
\* made at most one remote call and a rejected one carries its error.
C21_State ==
  /\ Cardinality({c \in 1..Len(pub.calls) : pub.calls[c].kind = "create"}) <= 1
  /\ \A b, c \in 1..Len(pub.calls) :
       (b < c /\ pub.calls[b].kind = "append" /\ pub.calls[c].kind = "append")
         => pub.calls[b].children # pub.calls[c].children
  /\ \A c \in FailedCalls :
       /\ c = Len(pub.calls)
       /\ pub.pc = "done"
       /\ ~pub.result.success
       /\ pub.result.error # ""
  /\ ret.op \in {"postApiKey", "postPage"} =>
       /\ ret.calls <= 1
       /\ ret.status = 400 => ret.error # ""

\* What C21 says of a step: once a call of the publish threw, no call is
\* issued.
C21_Step == FailedCalls # {} => pub'.calls = pub.calls

\* C21: no remote call is retried. Within one request each page-create,
\* block-append, users.me or pages.retrieve call is attempted at most once;
\* after the first failing remote call of a publish no further remote call
\* of that publish is issued; the failure is reported to the caller.
C21_NoRetry == []C21_State /\ [][C21_Step]_vars

\* C21's case: of a publish of three calls the first append threw, the
\* second was never issued, and a key request was rejected after its one
\* users.me call.
C21_Witness ==
  /\ Len(pub.blocks) = 2 * MAX_BLOCKS_PER_REQUEST + 1
  /\ pub.pc = "done"
  /\ Len(pub.calls) = 2
  /\ FailedCalls = {2}
  /\ ret.op = "postApiKey" /\ ret.calls = 1 /\ ret.status = 400

(* ------------------------- which uploads are taken --------------------- *)

\* An upload request arrives in the step: the handler has run up to its
\* answer or its call of createPage.
Arrives == req'.n = req.n + 1

\* The request that arrives names no stored page: its pageConfigId is
\* unknown, or it has none and no page is the default.
Unresolved ==
  IF req'.asked # Null THEN FindPage(pages, req'.asked) = 0
  ELSE GetDefaultPage(pages) = 0

\* C22: an upload request is rejected with a 4xx error, with no remote call
\* and no history record, when its content is empty or its UTF-8 byte size
\* exceeds settings.maxFileSize, or when no target page resolves (an unknown
\* pageConfigId, or no pageConfigId and no default page); an upload without
\* pageConfigId is published under the default page; and this holds for
\* every request, the first request after process start included.
C22_UploadTaken ==
  [][(Arrives /\ req'.seen) =>
       /\ (req'.empty \/ req'.oversize \/ Unresolved) =>
            /\ req'.pc = "replied"
            /\ req'.status \in 400..499
            /\ UNCHANGED <<pub, history, nAdded>>
       /\ (/\ ~req'.empty /\ ~req'.oversize /\ ~Unresolved
           /\ req'.asked = Null
           /\ ~(req'.conversions = 1 /\ ~req'.converted)) =>
            /\ req'.pc = "publishing"
            /\ req'.pageConfigId = pages[GetDefaultPage(pages)].id
            /\ pub'.parent = pages[GetDefaultPage(pages)].pageId]_vars

(* --------------------- stored only after validation -------------------- *)

\* The string begins with one of the two known prefixes.
BeginsWithPrefix(str) ==
  \E prefix \in {SecretPrefix, NtnPrefix} :
    Len(str) >= Len(prefix) /\ SubSeq(str, 1, Len(prefix)) = prefix

\* The step is the answer of a config request.
Answered(op) == ret'.op = op /\ ret' # ret

\* C23: the stored credential and the page collection change only after
\* validation succeeded. POST /api/config/api-key stores a key only if it
\* is a non-empty string beginning with one of the two known prefixes and
\* the remote key check succeeded; POST /api/config/pages adds a page only
\* if the identifier was extracted and the remote page-access check
\* succeeded; every rejected request answers 400 and leaves the whole
\* document unchanged.
C23_StoredAfterValidation ==
  [][/\ Answered("postApiKey") =>
          /\ (ret'.status = 200 \/ Document' # Document) =>
               /\ ret'.apiKey # <<>>
               /\ BeginsWithPrefix(ret'.apiKey)
               /\ ret'.calls = 1 /\ ret'.status = 200
          /\ ret'.status # 200 => (ret'.status = 400 /\ Document' = Document)
     /\ Answered("postPage") =>
          /\ (ret'.status = 200 \/ Document' # Document) =>
               /\ ExtractPageId(ret'.input) # Null
               /\ ret'.calls = 1 /\ ret'.status = 200
          /\ ret'.status # 200 => (ret'.status = 400 /\ Document' = Document)]_vars

(* -------------------------- the default pointer ------------------------ *)

\* C24: in every state reachable by addPage, updatePage and deletePage,
\* config.defaultPageId is consistent with the isDefault flags: it equals
\* the id of the page whose isDefault is true, it is null exactly when no
\* page has isDefault = true, and it never refers to a deleted page or to a
\* page whose isDefault is false.
C24_DefaultPointer ==
  /\ \A i \in Defaults(pages) : config.defaultPageId = pages[i].id
  /\ config.defaultPageId = Null <=> Defaults(pages) = {}
  /\ config.defaultPageId # Null =>
       /\ \E i \in 1..Len(pages) : pages[i].id = config.defaultPageId
       /\ \A i \in 1..Len(pages) :
            pages[i].id = config.defaultPageId => pages[i].isDefault

(* ------------------------------ page ids ------------------------------- *)

\* No two stored pages share an id.
UniqueIds == \A i, j \in 1..Len(pages) : i # j => pages[i].id # pages[j].id

\* addPage and updatePage leave every stored page in its place: the page
\* has the id it had. (Of the fields generated at creation, id is the one
\* the pages of the model carry.)
KeepsIds ==
  ret'.op \in {"addPage", "updatePage"} =>
    \A i \in 1..Len(pages) : i <= Len(pages') => pages'[i].id = pages[i].id

\* C27: page ids are unique and immutable. In every state reachable by
\* addPage, updatePage (with any partial-field object a caller can pass, the
\* route schema not forbidding extra properties) and deletePage, no two
\* stored pages share an id, and no operation changes the id or createdAt
\* of an existing page.
C27_IdsUniqueImmutable == []UniqueIds /\ [][KeepsIds]_vars

(* ------------------------- initialization first ------------------------ *)

\* C25: in any order of incoming requests starting from a fresh process, no
\* request handler reads or writes the store's document before the store's
\* initialization has completed; every handler that touches the document
\* (both upload routes, which read settings first, included) triggers or
\* awaits init beforehand. An upload handler that has its content reads
\* settings next: the store is initialized by then; and a step that changes
\* the document leaves the store initialized.
C25_InitFirst ==
  [][/\ (Arrives /\ req'.seen) => initialized
     /\ Document' # Document => initialized']_vars

(* --------------------------- what is left behind ----------------------- *)

\* The blocks the remote page of the publish holds: those of the calls that
\* succeeded, in call order.
Delivered == Concat(SelectSeq(pub.calls, LAMBDA call : call.ok))

\* The create call of the publish succeeded: a remote page exists.
PageExists ==
  \E c \in 1..Len(pub.calls) : pub.calls[c].kind = "create" /\ pub.calls[c].ok

\* The handler has recorded the publish: the newest record is its record.
Recorded == req.pc = "replied" /\ req.reached /\ req.records = 1

\* The record says 'failed' with a null notionPageId.
RecordedFailed ==
  /\ Recorded
  /\ history[1].status = "failed"
  /\ history[1].notionPageId = Null

\* C26: a publish is all-or-nothing towards the remote service. Whenever
\* createPage reports success = false (and the history record says 'failed'
\* with a null notionPageId), no page has been created remotely; whenever a
\* remote page exists, it contains all input blocks and the result is
\* success.
C26_AllOrNothing ==
  pub.pc = "done" =>
    /\ (~pub.result.success \/ RecordedFailed) => ~PageExists
    /\ PageExists => (Delivered = pub.blocks /\ pub.result.success)

\* C26 as amended: whenever createPage reports success = false (and the
\* history record says 'failed' with a null notionPageId), either no page
\* has been created remotely or the created page holds only a leading part
\* of the input blocks, in order; whenever a remote page holds all input
\* blocks the result is success, and whenever the result is success the
\* remote page holds all input blocks.
C26_LeadingPartOrAll ==
  pub.pc = "done" =>
    /\ (~pub.result.success \/ RecordedFailed) =>
         /\ ~pub.result.success
         /\ Len(Delivered) < Len(pub.blocks) \/ ~PageExists
         /\ Delivered = SubSeq(pub.blocks, 1, Len(Delivered))
         /\ ~PageExists => Delivered = <<>>
    /\ Recorded =>
         (history[1].status = "failed" <=> ~pub.result.success)
    /\ (PageExists /\ Delivered = pub.blocks) => pub.result.success
    /\ pub.result.success => (PageExists /\ Delivered = pub.blocks)

\* C26's case: the page was created with the first hundred blocks, the
\* append of the rest failed, createPage reported the failure and the
\* handler recorded it with a null notionPageId.
C26_Witness ==
  /\ pub.pc = "done"
  /\ ~pub.result.success
  /\ PageExists
  /\ Len(pub.calls) = 2 /\ ~pub.calls[2].ok
  /\ Len(Delivered) = MAX_BLOCKS_PER_REQUEST
  /\ RecordedFailed

====
